---- MODULE Spec2Model ----
(***************************************************************************)
(* Model of web/client/src/app/providers/page.tsx (ProvidersPage): the     *)
(* schema-driven configuration form, the provider lifecycle actions and    *)
(* the filtered / paginated instrument browser with its selection.         *)
(*                                                                         *)
(* Strings whose characters matter (queries, symbols, raw field values,    *)
(* provider names typed in the form) are sequences of one-character        *)
(* strings, so trimming, lower-casing, substring search and number parsing *)
(* are computed and not assumed.                                           *)
(*                                                                         *)
(* React semantics used by the model:                                      *)
(*  - the state updates of one handler segment (up to the next await) are  *)
(*    applied together, then the component renders;                        *)
(*  - after a render, the effects whose dependencies differ from the       *)
(*    previous render run in declaration order, reading the values of      *)
(*    that render; their state updates are queued in call order (the last  *)
(*    write to a state cell wins) and applied together, then the component *)
(*    renders again (action Commit);                                       *)
(*  - an input event or a network completion is handled once the effects   *)
(*    have settled (spec section 5: recomputation runs to completion       *)
(*    before the next input is accepted).                                  *)
(***************************************************************************)
EXTENDS Integers, Sequences, FiniteSets, TLC

\* ------------------------------------------------------------------ bounds
MaxDetailReqs == 2      \* getProvider requests of handleDetail in flight
MaxActionReqs == 2      \* start/stop/delete handlers in flight
MaxEditReqs   == 1      \* getProvider requests of handleEdit in flight
MaxSaveReqs   == 2      \* handleFormSubmit invocations in flight
MaxFieldInputs == 3     \* input events on the form's fields in one run
MaxRawLen     == 3      \* characters of a generated raw text
MaxSchemaLen  == 2      \* fields of a generated settings schema
MaxFiltered   == 250    \* length of a generated filtered list
MaxRequestedPage == 5   \* stored page index handed to the pagination
MaxResyncPage == 2      \* stored page index handed to the resync effect
MaxResyncTok  == 2      \* response objects a previous selection can come from
MaxInstruments == 3     \* instruments of a generated instrument list
MaxClickPos   == 3      \* instrument buttons clicked: the first MaxClickPos of a page, and its last
MaxRenders    == 5      \* renders in a row that one input event may cause

\* ------------------------------------------------------- program constants
INSTRUMENTS_PAGE_SIZE == 120

\* ------------------------------------------------------------ text helpers
Min(a, b) == IF a < b THEN a ELSE b
Max(a, b) == IF a > b THEN a ELSE b

\* Math.ceil(a / b) for a >= 0, b > 0
Ceil(a, b) == (a + b - 1) \div b

UpperChars ==
  << "A", "B", "C", "D", "E", "F", "G", "H", "I", "J", "K", "L", "M",
     "N", "O", "P", "Q", "R", "S", "T", "U", "V", "W", "X", "Y", "Z" >>
LowerChars ==
  << "a", "b", "c", "d", "e", "f", "g", "h", "i", "j", "k", "l", "m",
     "n", "o", "p", "q", "r", "s", "t", "u", "v", "w", "x", "y", "z" >>

\* String.prototype.toLowerCase, one character
LowerChar(c) ==
  IF \E i \in 1..Len(UpperChars) : UpperChars[i] = c
    THEN LowerChars[CHOOSE i \in 1..Len(UpperChars) : UpperChars[i] = c]
    ELSE c

\* String.prototype.toLowerCase
ToLowerCase(s) == [i \in 1..Len(s) |-> LowerChar(s[i])]

IsSpace(c) == c = " "

RECURSIVE TrimStart(_)
TrimStart(s) ==
  IF s # <<>> /\ IsSpace(Head(s)) THEN TrimStart(Tail(s)) ELSE s

RECURSIVE TrimEnd(_)
TrimEnd(s) ==
  IF s # <<>> /\ IsSpace(s[Len(s)]) THEN TrimEnd(SubSeq(s, 1, Len(s) - 1)) ELSE s

\* String.prototype.trim
Trim(s) == TrimEnd(TrimStart(s))

\* String.prototype.includes
Includes(s, q) ==
  \E k \in 0..(Len(s) - Len(q)) : SubSeq(s, k + 1, k + Len(q)) = q

\* Array.prototype.slice(start, end) on a sequence (zero-based, end exclusive)
Slice(s, start, end) == SubSeq(s, start + 1, Min(end, Len(s)))

DigitChars == <<"0","1","2","3","4","5","6","7","8","9">>

RECURSIVE Digits(_)
Digits(n) ==
  IF n < 10 THEN <<DigitChars[n + 1]>>
  ELSE Digits(n \div 10) \o <<DigitChars[(n % 10) + 1]>>

\* ------------------------------------------------- data held by the gateway
\* An absent (undefined) string field of an Instrument.
Absent == <<"<undefined>">>

\* p1..p3 exist on the gateway from the start; p4 can be created.
ProviderNames == {"p1", "p2", "p3", "p4"}

BigCount == 2 * INSTRUMENTS_PAGE_SIZE + 1

\* p1: three pages; odd positions are BTC instruments (primary base field),
\* even positions ETH instruments (legacy base field only).
BigInstrument(i) ==
  IF i % 2 = 1
    THEN [symbol |-> <<"B","T","C">> \o Digits(i),
          baseAsset |-> <<"B","T","C">>, base_currency |-> Absent,
          quoteAsset |-> <<"U","S","D","T">>, quote_currency |-> Absent]
    ELSE [symbol |-> <<"E","T","H">> \o Digits(i),
          baseAsset |-> Absent, base_currency |-> <<"e","t","h">>,
          quoteAsset |-> Absent, quote_currency |-> <<"U","S","D">>]

\* p2: a short list that shares symbols with p1 and repeats one symbol.
SmallInstruments ==
  << [symbol |-> <<"E","T","H","2">>,
      baseAsset |-> <<"E","T","H">>, base_currency |-> Absent,
      quoteAsset |-> Absent, quote_currency |-> Absent],
     [symbol |-> <<"B","T","C","1">>,
      baseAsset |-> Absent, base_currency |-> Absent,
      quoteAsset |-> <<"b","t","c">>, quote_currency |-> Absent],
     [symbol |-> <<"B","T","C","1">>,
      baseAsset |-> <<"X","R","P">>, base_currency |-> <<"B","T","C">>,
      quoteAsset |-> Absent, quote_currency |-> <<"U","S","D">>] >>

InstrumentTable ==
  [p \in ProviderNames |->
     CASE p = "p1" -> [i \in 1..BigCount |-> BigInstrument(i)]
       [] p = "p2" -> SmallInstruments
       [] OTHER    -> <<>>]

\* detailResponse.instruments of getProvider(name)
InstrumentsOf(name) == InstrumentTable[name]

\* Text typed into the instrument search box.
Queries ==
  { <<>>, <<" ">>, <<"b","t","c">>, <<"B","T","C"," ">>, <<"z","z">> }

\* adaptersResponse.adapters of getAdapters(): the identifiers, in order
AdapterIds == <<"binance", "sim">>

\* The gateway's providers before any request of this page.
InitialServer ==
  [p \in ProviderNames |->
     CASE p = "p1" -> "running" [] p = "p4" -> "absent" [] OTHER -> "stopped"]

NoName == "<null>"
NoError == "<null>"
ErrMsg  == "request failed"

\* ProviderDetail | null: a response object is (name, tok); tok tells two
\* response objects for the same provider apart (reference identity).
NoDetail == [name |-> "<null>", tok |-> 0]

\* Instrument | null: the idx-th element of response (name, tok).
NoInstrument == [name |-> "<null>", tok |-> 0, idx |-> 0]

InstrumentObj(d, i) == [name |-> d.name, tok |-> d.tok, idx |-> i]

SymbolOf(x) == InstrumentsOf(x.name)[x.idx].symbol

\* ------------------------------------------------------- typed values
\* A JavaScript value of a setting (default, existing setting, coerced
\* value): numbers are n * 10^e with n not divisible by 10 (0 is n = 0, e = 0),
\* booleans n = 1 / 0, strings and serialised objects carry their text in s.
RECURSIVE StripZeros(_, _)
StripZeros(n, e) ==
  IF n # 0 /\ n % 10 = 0 THEN StripZeros(n \div 10, e + 1) ELSE <<n, e>>

Normalize(n, e) == IF n = 0 THEN <<0, 0>> ELSE StripZeros(n, e)

Num(n, e) ==
  [t |-> "number", n |-> Normalize(n, e)[1], e |-> Normalize(n, e)[2], s |-> <<>>]
NaN        == [t |-> "NaN", n |-> 0, e |-> 0, s |-> <<>>]
Infinity(neg) == [t |-> "Infinity", n |-> IF neg THEN -1 ELSE 1, e |-> 0, s |-> <<>>]
Bool(b)    == [t |-> "boolean", n |-> IF b THEN 1 ELSE 0, e |-> 0, s |-> <<>>]
Str(s)     == [t |-> "string", n |-> 0, e |-> 0, s |-> s]
Obj(json)  == [t |-> "object", n |-> 0, e |-> 0, s |-> json]
Null       == [t |-> "null", n |-> 0, e |-> 0, s |-> <<>>]
Undefined  == [t |-> "undefined", n |-> 0, e |-> 0, s |-> <<>>]

IsDigit(c) == \E i \in 1..Len(DigitChars) : DigitChars[i] = c
DigitVal(c) == (CHOOSE i \in 1..Len(DigitChars) : DigitChars[i] = c) - 1

\* the longest prefix of s made of decimal digits
RECURSIVE DigitsPrefix(_)
DigitsPrefix(s) ==
  IF s # <<>> /\ IsDigit(Head(s)) THEN <<Head(s)>> \o DigitsPrefix(Tail(s)) ELSE <<>>

RECURSIVE DigitsValue(_)
DigitsValue(ds) ==
  IF ds = <<>> THEN 0
  ELSE 10 * DigitsValue(SubSeq(ds, 1, Len(ds) - 1)) + DigitVal(ds[Len(ds)])

Drop(s, k) == SubSeq(s, k + 1, Len(s))

HasSign(s) == s # <<>> /\ (Head(s) = "-" \/ Head(s) = "+")
IsNegative(s) == s # <<>> /\ Head(s) = "-"

\* Number.parseInt(text, 10): leading white space is skipped, an optional
\* sign, then the longest run of decimal digits; whatever follows the digits
\* is ignored; NaN when there is no digit.
ParseInt(text) ==
  LET t == TrimStart(text)
      body == IF HasSign(t) THEN Tail(t) ELSE t
      ds == DigitsPrefix(body)
  IN IF ds = <<>> THEN NaN
     ELSE Num((IF IsNegative(t) THEN -1 ELSE 1) * DigitsValue(ds), 0)

InfinityChars == <<"I","n","f","i","n","i","t","y">>

\* Number.parseFloat(text): leading white space is skipped, then the longest
\* prefix that is a decimal literal (sign, digits, fraction, exponent) or
\* Infinity; whatever follows is ignored; NaN when there is no such prefix.
ParseFloat(text) ==
  LET t == TrimStart(text)
      sign == IF IsNegative(t) THEN -1 ELSE 1
      body == IF HasSign(t) THEN Tail(t) ELSE t
      int == DigitsPrefix(body)
      afterInt == Drop(body, Len(int))
      hasDot == afterInt # <<>> /\ Head(afterInt) = "."
      frac == IF hasDot THEN DigitsPrefix(Tail(afterInt)) ELSE <<>>
      afterFrac == IF hasDot /\ (int # <<>> \/ frac # <<>>)
                     THEN Drop(afterInt, 1 + Len(frac)) ELSE afterInt
      hasE == afterFrac # <<>> /\ (Head(afterFrac) = "e" \/ Head(afterFrac) = "E")
      expText == IF hasE THEN Tail(afterFrac) ELSE <<>>
      expDigits == DigitsPrefix(IF HasSign(expText) THEN Tail(expText) ELSE expText)
      exp == IF expDigits = <<>> THEN 0
             ELSE (IF IsNegative(expText) THEN -1 ELSE 1) * DigitsValue(expDigits)
  IN IF Len(body) >= Len(InfinityChars)
          /\ SubSeq(body, 1, Len(InfinityChars)) = InfinityChars
       THEN Infinity(sign = -1)
     ELSE IF int = <<>> /\ frac = <<>> THEN NaN
     ELSE Num(sign * DigitsValue(int \o frac), exp - Len(frac))

RECURSIVE Zeros(_)
Zeros(k) == IF k <= 0 THEN <<>> ELSE <<"0">> \o Zeros(k - 1)

\* String(value) of a number n * 10^e in plain decimal notation
NumberToString(v) ==
  LET mag == IF v.n < 0 THEN -v.n ELSE v.n
      ds == Digits(mag)
      sign == IF v.n < 0 THEN <<"-">> ELSE <<>>
      k == -v.e
  IN IF v.e >= 0 THEN sign \o ds \o Zeros(v.e)
     ELSE IF Len(ds) > k
       THEN sign \o SubSeq(ds, 1, Len(ds) - k) \o <<".">> \o Drop(ds, Len(ds) - k)
     ELSE sign \o <<"0", ".">> \o Zeros(k - Len(ds)) \o ds

valueToString(value) ==
  IF value.t = "null" \/ value.t = "undefined" THEN <<>>
  ELSE IF value.t = "object" THEN value.s
  ELSE CASE value.t = "number"  -> NumberToString(value)
         [] value.t = "boolean" -> IF value.n = 1 THEN <<"t","r","u","e">>
                                   ELSE <<"f","a","l","s","e">>
         [] value.t = "NaN"     -> <<"N","a","N">>
         [] value.t = "Infinity" -> (IF value.n < 0 THEN <<"-">> ELSE <<>>) \o InfinityChars
         [] OTHER               -> value.s

\* ----------------------------------------------------- adapter metadata
\* SettingsSchema: name, type tag (text), default (Undefined when the field
\* declares none), required.
Field(name, type, default, required) ==
  [name |-> name, type |-> type, default |-> default, required |-> required]

\* settingsSchema of the two adapters the gateway offers
BinanceSchema ==
  << Field("depth", <<"I","N","T">>, Num(5, 0), FALSE),
     Field("apiKey", <<"s","t","r","i","n","g">>, Null, TRUE) >>

SimSchema ==
  << Field("depth", <<"i","n","t","e","g","e","r">>, Undefined, TRUE),
     Field("live", <<"B","o","o","l">>, Bool(FALSE), FALSE) >>

\* AdapterMetadata | undefined
NoAdapter == [identifier |-> "", settingsSchema |-> <<>>, defined |-> FALSE]

AdapterMeta(id) ==
  CASE id = "binance" -> [identifier |-> id, settingsSchema |-> BinanceSchema, defined |-> TRUE]
    [] id = "sim"     -> [identifier |-> id, settingsSchema |-> SimSchema, defined |-> TRUE]
    [] OTHER          -> NoAdapter

\* The keys a values map or a settings object of the model can hold.
FieldNames == {"apiKey", "depth", "live", "legacy"}

\* configValues[key] of a key the map does not hold
Missing == <<"<undefined>">>

\* {} as Record<string, string>
EmptyValues == [k \in FieldNames |-> Missing]

\* a settings object without own properties (also: no `existing` argument)
NoSettings == [k \in FieldNames |-> Undefined]

SchemaNames(schema) == { schema[i].name : i \in 1..Len(schema) }

\* The last field of the schema with the given name (forEach assigns in
\* schema order, so a later field of the same name overwrites).
LastIndexOf(schema, name) ==
  CHOOSE i \in 1..Len(schema) :
    /\ schema[i].name = name
    /\ \A j \in 1..Len(schema) : schema[j].name = name => j <= i

\* Object.prototype.hasOwnProperty.call(existing, name)
HasOwn(existing, name) == existing[name] # Undefined

\* buildConfigValues as it would be if a null in the existing settings fell
\* through to the field's default.
buildConfigValues_NullUsesDefault(metadata, existing) ==
  IF ~metadata.defined THEN EmptyValues
  ELSE [k \in FieldNames |->
         IF k \notin SchemaNames(metadata.settingsSchema) THEN Missing
         ELSE LET setting == metadata.settingsSchema[LastIndexOf(metadata.settingsSchema, k)]
              IN IF HasOwn(existing, k) /\ existing[k] # Null
                   THEN valueToString(existing[k])
                 ELSE IF setting.default # Undefined /\ setting.default # Null
                   THEN valueToString(setting.default)
                 ELSE <<>>]

buildConfigValues(metadata, existing) ==
  IF ~metadata.defined THEN EmptyValues
  ELSE [k \in FieldNames |->
         IF k \notin SchemaNames(metadata.settingsSchema) THEN Missing
         ELSE LET setting == metadata.settingsSchema[LastIndexOf(metadata.settingsSchema, k)]
              IN IF HasOwn(existing, k) THEN valueToString(existing[k])
                 ELSE IF setting.default # Undefined /\ setting.default # Null
                   THEN valueToString(setting.default)
                 ELSE <<>>]

\* { value } or { error } of parseConfigValue
Value(v) == [error |-> <<"", "">>, value |-> v]
FieldError(name, text) == [error |-> <<name, text>>, value |-> Undefined]
IsError(result) == result.error # <<"", "">>

TrueWords  == { <<"t","r","u","e">>, <<"1">>, <<"y","e","s">>, <<"o","n">> }
FalseWords == { <<"f","a","l","s","e">>, <<"0">>, <<"n","o">>, <<"o","f","f">> }

\* parseConfigValue as it would be if the boolean words were compared as
\* typed, without lowercasing.
parseConfigValue_CaseSensitiveBool(setting, raw) ==
  LET kind == ToLowerCase(setting.type)
      trimmed == Trim(raw)
  IN CASE kind \in { <<"i","n","t">>, <<"i","n","t","e","g","e","r">> } ->
            IF ParseInt(trimmed) = NaN
              THEN FieldError(setting.name, " must be an integer")
              ELSE Value(ParseInt(trimmed))
       [] kind \in { <<"f","l","o","a","t">>, <<"d","o","u","b","l","e">>,
                     <<"n","u","m","b","e","r">> } ->
            IF ParseFloat(trimmed) = NaN
              THEN FieldError(setting.name, " must be a number")
              ELSE Value(ParseFloat(trimmed))
       [] kind \in { <<"b","o","o","l">>, <<"b","o","o","l","e","a","n">> } ->
            IF trimmed \in TrueWords THEN Value(Bool(TRUE))
            ELSE IF trimmed \in FalseWords THEN Value(Bool(FALSE))
            ELSE FieldError(setting.name, " must be a boolean")
       [] OTHER -> Value(Str(raw))

\* parseConfigValue as it would be if the default branch returned the trimmed
\* text.
parseConfigValue_TrimsText(setting, raw) ==
  LET kind == ToLowerCase(setting.type)
      trimmed == Trim(raw)
  IN CASE kind \in { <<"i","n","t">>, <<"i","n","t","e","g","e","r">> } ->
            IF ParseInt(trimmed) = NaN
              THEN FieldError(setting.name, " must be an integer")
              ELSE Value(ParseInt(trimmed))
       [] kind \in { <<"f","l","o","a","t">>, <<"d","o","u","b","l","e">>,
                     <<"n","u","m","b","e","r">> } ->
            IF ParseFloat(trimmed) = NaN
              THEN FieldError(setting.name, " must be a number")
              ELSE Value(ParseFloat(trimmed))
       [] kind \in { <<"b","o","o","l">>, <<"b","o","o","l","e","a","n">> } ->
            IF ToLowerCase(trimmed) \in TrueWords THEN Value(Bool(TRUE))
            ELSE IF ToLowerCase(trimmed) \in FalseWords THEN Value(Bool(FALSE))
            ELSE FieldError(setting.name, " must be a boolean")
       [] OTHER -> Value(Str(trimmed))

parseConfigValue(setting, raw) ==
  LET kind == ToLowerCase(setting.type)
      trimmed == Trim(raw)
  IN CASE kind \in { <<"i","n","t">>, <<"i","n","t","e","g","e","r">> } ->
            IF ParseInt(trimmed) = NaN
              THEN FieldError(setting.name, " must be an integer")
              ELSE Value(ParseInt(trimmed))
       [] kind \in { <<"f","l","o","a","t">>, <<"d","o","u","b","l","e">>,
                     <<"n","u","m","b","e","r">> } ->
            IF ParseFloat(trimmed) = NaN
              THEN FieldError(setting.name, " must be a number")
              ELSE Value(ParseFloat(trimmed))
       [] kind \in { <<"b","o","o","l">>, <<"b","o","o","l","e","a","n">> } ->
            IF ToLowerCase(trimmed) \in TrueWords THEN Value(Bool(TRUE))
            ELSE IF ToLowerCase(trimmed) \in FalseWords THEN Value(Bool(FALSE))
            ELSE FieldError(setting.name, " must be a boolean")
       [] OTHER -> Value(Str(raw))

\* config[key] of a key the payload does not hold
NoEntry == Undefined

EmptyConfig == [k \in FieldNames |-> NoEntry]

\* Mutant of the collect loop: a failing field does not stop the loop, the
\* error of a later failing field replaces it.
RECURSIVE CollectFrom_LastError(_, _, _, _)
CollectFrom_LastError(schema, configValues, i, config) ==
  IF i > Len(schema) THEN [config |-> config, error |-> <<"", "">>]
  ELSE LET setting == schema[i]
           rawValue == IF configValues[setting.name] # Missing
                         THEN configValues[setting.name] ELSE <<>>
           result == parseConfigValue(setting, rawValue)
           rest == CollectFrom_LastError(schema, configValues, i + 1, config)
       IN IF Trim(rawValue) = <<>>
            THEN IF setting.required
                   THEN IF IsError(rest) THEN rest
                        ELSE [config |-> EmptyConfig,
                              error |-> <<setting.name, " is required">>]
                   ELSE rest
          ELSE IF IsError(result)
            THEN IF IsError(rest) THEN rest
                 ELSE [config |-> EmptyConfig, error |-> result.error]
          ELSE CollectFrom_LastError(schema, configValues, i + 1,
                                     [config EXCEPT ![setting.name] = result.value])

\* Mutant of the collect loop: a coerced value is stored only when it is
\* truthy, so 0 and false are left out of the payload.
RECURSIVE CollectFrom_DropsFalsy(_, _, _, _)
CollectFrom_DropsFalsy(schema, configValues, i, config) ==
  IF i > Len(schema) THEN [config |-> config, error |-> <<"", "">>]
  ELSE LET setting == schema[i]
           rawValue == IF configValues[setting.name] # Missing
                         THEN configValues[setting.name] ELSE <<>>
           result == parseConfigValue(setting, rawValue)
       IN IF Trim(rawValue) = <<>>
            THEN IF setting.required
                   THEN [config |-> EmptyConfig, error |-> <<setting.name, " is required">>]
                   ELSE CollectFrom_DropsFalsy(schema, configValues, i + 1, config)
          ELSE IF IsError(result)
            THEN [config |-> EmptyConfig, error |-> result.error]
          ELSE CollectFrom_DropsFalsy(schema, configValues, i + 1,
                 IF result.value \in {Num(0, 0), Bool(FALSE)} THEN config
                 ELSE [config EXCEPT ![setting.name] = result.value])

\* The for-of loop of collectConfigPayload from field i on, with the
\* config collected so far.
RECURSIVE CollectFrom(_, _, _, _)
CollectFrom(schema, configValues, i, config) ==
  IF i > Len(schema) THEN [config |-> config, error |-> <<"", "">>]
  ELSE LET setting == schema[i]
           rawValue == IF configValues[setting.name] # Missing
                         THEN configValues[setting.name] ELSE <<>>
           result == parseConfigValue(setting, rawValue)
       IN IF Trim(rawValue) = <<>>
            THEN IF setting.required
                   THEN [config |-> EmptyConfig, error |-> <<setting.name, " is required">>]
                   ELSE CollectFrom(schema, configValues, i + 1, config)
          ELSE IF IsError(result)
            THEN [config |-> EmptyConfig, error |-> result.error]
          ELSE CollectFrom(schema, configValues, i + 1,
                           [config EXCEPT ![setting.name] = result.value])

collectConfigPayload(metadata, configValues) ==
  CollectFrom(metadata.settingsSchema, configValues, 1, EmptyConfig)

\* --------------------------------------------------------------- state
VARIABLES
  \* page level
  loading,             \* useState(true): initial fetch outstanding
  error,               \* initial fetch error
  providers,           \* Provider[]: name -> "absent" | "stopped" | "running"
  adapters,            \* AdapterMetadata[] (sequence of identifiers)
  srv,                 \* the gateway's providers: name -> status
  \* detail dialog and instrument browser
  detailOpen, detail, detailLoading, detailError,
  selectedInstrument, instrumentQuery, instrumentPage,
  rendered,            \* values of the last committed render (effect dependencies)
  detailReqs,          \* getProvider calls of handleDetail in flight, in issue order
  lastViewInput,       \* history: the last input event of the detail dialog
  renderCount,         \* history: renders carried out since the last input event
  lastDetailName,      \* history: the provider of the latest handleDetail call
  \* lifecycle actions
  pendingAction, actionError, actionNotice,
  noticeTimers,        \* window.setTimeout timers of the notice effect not yet fired or cleared
  actionReqs,          \* start/stop/delete handlers suspended at an await
  \* create / edit form
  formOpen, formMode, formState, formError, formLoading, submitting,
  editReqs,            \* getProvider calls of handleEdit in flight
  fieldInputs,         \* input events on the form's fields so far
  saveReqs,            \* handleFormSubmit invocations suspended at an await
  \* applications of the pure functions (specifications SpecCoerce, SpecCollect)
  coerceCall,          \* parseConfigValue(setting, raw)
  collectCall,         \* collectConfigPayload(metadata, configValues)
  paginateCall,        \* the derived pagination of one render
  resyncCall,          \* one run of the selection resync effect
  filterCall,          \* one computation of filteredInstruments
  buildCall            \* the buildConfigValues call under test

pageVars == <<loading, error, providers, adapters, srv>>
viewVars == <<detailOpen, detail, detailLoading, detailError,
              selectedInstrument, instrumentQuery, instrumentPage,
              rendered, detailReqs, lastViewInput, renderCount, lastDetailName>>
actVars  == <<pendingAction, actionError, actionNotice, noticeTimers, actionReqs>>
formVars == <<formOpen, formMode, formState, formError, formLoading, submitting,
              editReqs, saveReqs, fieldInputs>>
pureVars == <<coerceCall, collectCall, paginateCall, resyncCall, filterCall, buildCall>>
vars == <<pageVars, viewVars, actVars, formVars, pureVars>>

\* ------------------------------------------------- instrument browser (pure)
instrumentBaseValue(instrument) ==
  IF instrument.baseAsset # Absent THEN instrument.baseAsset
  ELSE IF instrument.base_currency # Absent THEN instrument.base_currency
  ELSE <<>>

instrumentQuoteValue(instrument) ==
  IF instrument.quoteAsset # Absent THEN instrument.quoteAsset
  ELSE IF instrument.quote_currency # Absent THEN instrument.quote_currency
  ELSE <<>>

\* Mutant of the filter predicate: the quote value is not looked at.
InstrumentMatches_NoQuote(instrument, query) ==
  LET symbol == IF instrument.symbol # Absent
                  THEN ToLowerCase(instrument.symbol) ELSE <<>>
      base   == ToLowerCase(instrumentBaseValue(instrument))
  IN Includes(symbol, query) \/ Includes(base, query)

\* the predicate of detail.instruments.filter(...)
InstrumentMatches(instrument, query) ==
  LET symbol == IF instrument.symbol # Absent
                  THEN ToLowerCase(instrument.symbol) ELSE <<>>
      base   == ToLowerCase(instrumentBaseValue(instrument))
      quote  == ToLowerCase(instrumentQuoteValue(instrument))
  IN Includes(symbol, query) \/ Includes(base, query) \/ Includes(quote, query)

\* The useMemo body for a non-null detail: the positions (1-based) in
\* detail.instruments of the instruments kept, in original order.
FilterInstruments(instruments, q) ==
  LET query == ToLowerCase(Trim(q))
      all   == [i \in 1..Len(instruments) |-> i]
  IN IF query = <<>> THEN all
     ELSE SelectSeq(all, LAMBDA i : InstrumentMatches(instruments[i], query))

\* useMemo cache: one entry per (instrument set, query)
FilteredTable ==
  [p \in ProviderNames |-> [q \in Queries |-> FilterInstruments(InstrumentsOf(p), q)]]

filteredInstruments(d, q) ==
  IF d = NoDetail THEN <<>> ELSE FilteredTable[d.name][q]

\* The derived pagination of one render (page.tsx:307-316), as functions of
\* the filtered list (or its length n) and the stored page p.
\* Mutant of the page count: the division is rounded down.
PagesOf_Floor(n) == n \div INSTRUMENTS_PAGE_SIZE

PagesOf(n) == IF n = 0 THEN 0 ELSE Ceil(n, INSTRUMENTS_PAGE_SIZE)

EffectivePageOf(n, p) == IF PagesOf(n) = 0 THEN 0 ELSE Min(p, PagesOf(n) - 1)

PageStartOf(n, p) == EffectivePageOf(n, p) * INSTRUMENTS_PAGE_SIZE

PageSliceOf(filtered, p) ==
  Slice(filtered, PageStartOf(Len(filtered), p),
        PageStartOf(Len(filtered), p) + INSTRUMENTS_PAGE_SIZE)

DisplayStartOf(n, p) == IF n = 0 THEN 0 ELSE PageStartOf(n, p) + 1

\* Mutant of the display end: a full page is assumed.
DisplayEndOf_FullPage(filtered, p) ==
  IF Len(filtered) = 0 THEN 0
  ELSE PageStartOf(Len(filtered), p) + INSTRUMENTS_PAGE_SIZE

DisplayEndOf(filtered, p) ==
  IF Len(filtered) = 0 THEN 0
  ELSE PageStartOf(Len(filtered), p) + Len(PageSliceOf(filtered, p))

totalInstrumentCount(d, q) == Len(filteredInstruments(d, q))

totalInstrumentPages(d, q) == PagesOf(totalInstrumentCount(d, q))

effectiveInstrumentPage(d, q, p) == EffectivePageOf(totalInstrumentCount(d, q), p)

pageStart(d, q, p) == PageStartOf(totalInstrumentCount(d, q), p)

currentPageInstruments(d, q, p) == PageSliceOf(filteredInstruments(d, q), p)

pageDisplayStart(d, q, p) == DisplayStartOf(totalInstrumentCount(d, q), p)

pageDisplayEnd(d, q, p) == DisplayEndOf(filteredInstruments(d, q), p)

\* ------------------------------------------------------------- effects
\* r: the values of the render the effect belongs to
\*    [detailOpen, detail, query, page, selected];
\* u: the state updates queued so far in this pass [query, page, selected].

\* useEffect(..., [detailOpen])
DetailOpenEffect(r, u) ==
  IF ~r.detailOpen
    THEN [query |-> <<>>, page |-> 0, selected |-> NoInstrument]
    ELSE u

\* useEffect(..., [detail]): both branches queue the same three updates
DetailEffect(r, u) ==
  [query |-> <<>>, page |-> 0, selected |-> NoInstrument]

\* useEffect(..., [instrumentQuery])
QueryEffect(r, u) == [u EXCEPT !.page = 0]

\* Mutant of the clamp effect: only the empty list resets the page, a page
\* beyond the last page of a non-empty list is left as it is.
PageClampEffect_EmptyOnly(r, u) ==
  LET total == Len(filteredInstruments(r.detail, r.query))
  IN IF total = 0
       THEN (IF r.page # 0 THEN [u EXCEPT !.page = 0] ELSE u)
       ELSE u

\* useEffect(..., [filteredInstruments.length, instrumentPage])
PageClampEffect(r, u) ==
  LET total == Len(filteredInstruments(r.detail, r.query))
      maxPage == Max(0, Ceil(total, INSTRUMENTS_PAGE_SIZE) - 1)
  IN IF total = 0
       THEN (IF r.page # 0 THEN [u EXCEPT !.page = 0] ELSE u)
       ELSE IF r.page > maxPage THEN [u EXCEPT !.page = maxPage] ELSE u

\* currentSlice.find(instrument => instrument.symbol === selected.symbol):
\* the position in the slice of the first match, 0 when there is none
FindBySymbol(d, slice, selected) ==
  LET hits == { k \in 1..Len(slice) :
                  InstrumentsOf(d.name)[slice[k]].symbol = SymbolOf(selected) }
  IN IF hits = {} THEN 0 ELSE CHOOSE k \in hits : \A j \in hits : k <= j

\* Mutant of the resync effect: a selection whose symbol is no longer in the
\* slice is kept instead of falling back to currentSlice[0].
SelectionResyncEffect_KeepsStale(r, u) ==
  LET filtered == filteredInstruments(r.detail, r.query)
      maxPage == Max(0, Ceil(Len(filtered), INSTRUMENTS_PAGE_SIZE) - 1)
      currentPage == Min(r.page, maxPage)
      start == currentPage * INSTRUMENTS_PAGE_SIZE
      currentSlice == Slice(filtered, start, start + INSTRUMENTS_PAGE_SIZE)
      match == FindBySymbol(r.detail, currentSlice, r.selected)
  IN IF Len(filtered) = 0
       THEN (IF r.selected # NoInstrument
               THEN [u EXCEPT !.selected = NoInstrument] ELSE u)
     ELSE IF Len(currentSlice) = 0 THEN u
     ELSE IF r.selected = NoInstrument
       THEN [u EXCEPT !.selected = InstrumentObj(r.detail, currentSlice[1])]
     ELSE IF match # 0
       THEN (IF InstrumentObj(r.detail, currentSlice[match]) # r.selected
               THEN [u EXCEPT !.selected = InstrumentObj(r.detail, currentSlice[match])]
               ELSE u)
     ELSE u

\* Mutant of the resync effect: a selection whose symbol is in the slice is
\* kept as it is, also when it is another object than the slice's element.
SelectionResyncEffect_KeepsObject(r, u) ==
  LET filtered == filteredInstruments(r.detail, r.query)
      maxPage == Max(0, Ceil(Len(filtered), INSTRUMENTS_PAGE_SIZE) - 1)
      currentPage == Min(r.page, maxPage)
      start == currentPage * INSTRUMENTS_PAGE_SIZE
      currentSlice == Slice(filtered, start, start + INSTRUMENTS_PAGE_SIZE)
      match == FindBySymbol(r.detail, currentSlice, r.selected)
  IN IF Len(filtered) = 0
       THEN (IF r.selected # NoInstrument
               THEN [u EXCEPT !.selected = NoInstrument] ELSE u)
     ELSE IF Len(currentSlice) = 0 THEN u
     ELSE IF r.selected = NoInstrument
       THEN [u EXCEPT !.selected = InstrumentObj(r.detail, currentSlice[1])]
     ELSE IF match # 0 THEN u
     ELSE [u EXCEPT !.selected = InstrumentObj(r.detail, currentSlice[1])]

\* useEffect(..., [filteredInstruments, instrumentPage, selectedInstrument])
\* The resync effect as it would be if find() preferred an instrument of the
\* same symbol that is not the selected object.
SelectionResyncEffect_OtherDuplicate(r, u) ==
  LET filtered == filteredInstruments(r.detail, r.query)
      maxPage == Max(0, Ceil(Len(filtered), INSTRUMENTS_PAGE_SIZE) - 1)
      currentPage == Min(r.page, maxPage)
      start == currentPage * INSTRUMENTS_PAGE_SIZE
      currentSlice == Slice(filtered, start, start + INSTRUMENTS_PAGE_SIZE)
      others == { k \in 1..Len(currentSlice) :
                    /\ r.selected # NoInstrument
                    /\ r.selected.name = r.detail.name
                    /\ InstrumentsOf(r.detail.name)[currentSlice[k]].symbol
                         = SymbolOf(r.selected)
                    /\ InstrumentObj(r.detail, currentSlice[k]) # r.selected }
      match == IF others # {} THEN CHOOSE k \in others : \A j \in others : k <= j
               ELSE FindBySymbol(r.detail, currentSlice, r.selected)
  IN IF Len(filtered) = 0
       THEN (IF r.selected # NoInstrument
               THEN [u EXCEPT !.selected = NoInstrument] ELSE u)
     ELSE IF Len(currentSlice) = 0 THEN u
     ELSE IF r.selected = NoInstrument
       THEN [u EXCEPT !.selected = InstrumentObj(r.detail, currentSlice[1])]
     ELSE IF match # 0
       THEN (IF InstrumentObj(r.detail, currentSlice[match]) # r.selected
               THEN [u EXCEPT !.selected = InstrumentObj(r.detail, currentSlice[match])]
               ELSE u)
     ELSE [u EXCEPT !.selected = InstrumentObj(r.detail, currentSlice[1])]

\* The resync effect as it would be without the find(): a selection is always
\* replaced by currentSlice[0].
SelectionResyncEffect_AlwaysFirst(r, u) ==
  LET filtered == filteredInstruments(r.detail, r.query)
      maxPage == Max(0, Ceil(Len(filtered), INSTRUMENTS_PAGE_SIZE) - 1)
      currentPage == Min(r.page, maxPage)
      start == currentPage * INSTRUMENTS_PAGE_SIZE
      currentSlice == Slice(filtered, start, start + INSTRUMENTS_PAGE_SIZE)
  IN IF Len(filtered) = 0
       THEN (IF r.selected # NoInstrument
               THEN [u EXCEPT !.selected = NoInstrument] ELSE u)
     ELSE IF Len(currentSlice) = 0 THEN u
     ELSE IF r.selected # InstrumentObj(r.detail, currentSlice[1])
       THEN [u EXCEPT !.selected = InstrumentObj(r.detail, currentSlice[1])]
     ELSE u

SelectionResyncEffect(r, u) ==
  LET filtered == filteredInstruments(r.detail, r.query)
      maxPage == Max(0, Ceil(Len(filtered), INSTRUMENTS_PAGE_SIZE) - 1)
      currentPage == Min(r.page, maxPage)
      start == currentPage * INSTRUMENTS_PAGE_SIZE
      currentSlice == Slice(filtered, start, start + INSTRUMENTS_PAGE_SIZE)
      match == FindBySymbol(r.detail, currentSlice, r.selected)
  IN IF Len(filtered) = 0
       THEN (IF r.selected # NoInstrument
               THEN [u EXCEPT !.selected = NoInstrument] ELSE u)
     ELSE IF Len(currentSlice) = 0 THEN u
     ELSE IF r.selected = NoInstrument
       THEN [u EXCEPT !.selected = InstrumentObj(r.detail, currentSlice[1])]
     ELSE IF match # 0
       THEN (IF InstrumentObj(r.detail, currentSlice[match]) # r.selected
               THEN [u EXCEPT !.selected = InstrumentObj(r.detail, currentSlice[match])]
               ELSE u)
     ELSE [u EXCEPT !.selected = InstrumentObj(r.detail, currentSlice[1])]

\* Whether the memoised filteredInstruments of render r is another array
\* than that of render o: the memo recomputes when detail or query changed,
\* and returns detail.instruments itself when the trimmed query is empty.
FilteredChanged(o, r) ==
  /\ (o.detail # r.detail \/ o.query # r.query)
  /\ ~ ( /\ r.detail # NoDetail
         /\ o.detail = r.detail
         /\ Trim(o.query) = <<>>
         /\ Trim(r.query) = <<>> )

\* The values the component renders with.
Current ==
  [detailOpen |-> detailOpen, detail |-> detail, query |-> instrumentQuery,
   page |-> instrumentPage, selected |-> selectedInstrument]

\* No effect is waiting to run: the last render saw the current state.
Settled == rendered = Current

\* One render and the effects it triggers (in declaration order).
EffectsPass(o, r) ==
  LET u0 == [query |-> r.query, page |-> r.page, selected |-> r.selected]
      u1 == IF o.detailOpen # r.detailOpen THEN DetailOpenEffect(r, u0) ELSE u0
      u2 == IF o.detail # r.detail THEN DetailEffect(r, u1) ELSE u1
      u3 == IF o.query # r.query THEN QueryEffect(r, u2) ELSE u2
      u4 == IF \/ Len(filteredInstruments(o.detail, o.query))
                    # Len(filteredInstruments(r.detail, r.query))
               \/ o.page # r.page
              THEN PageClampEffect(r, u3) ELSE u3
      u5 == IF \/ FilteredChanged(o, r)
               \/ o.page # r.page
               \/ o.selected # r.selected
              THEN SelectionResyncEffect(r, u4) ELSE u4
  IN u5

Commit ==
  /\ ~Settled
  /\ renderCount < MaxRenders
  /\ renderCount' = renderCount + 1
  /\ UNCHANGED lastDetailName
  /\ LET u == EffectsPass(rendered, Current)
     IN /\ instrumentQuery' = u.query
        /\ instrumentPage' = u.page
        /\ selectedInstrument' = u.selected
  /\ rendered' = Current
  /\ UNCHANGED <<detailOpen, detail, detailLoading, detailError, detailReqs,
                 lastViewInput>>
  /\ UNCHANGED <<pageVars, actVars, formVars, pureVars>>

\* --------------------------------------------------------- initial fetch
\* The cards, the dialogs and their controls are rendered only after the
\* initial fetch succeeded (page.tsx:539-549).
Interactive == ~loading /\ error = NoError

\* Both dialogs are modal: while one is open the cards behind it and the
\* "Create provider" button cannot be pressed.
NoDialogOpen == ~detailOpen /\ ~formOpen

\* fetchInitial resolves: Promise.all of getProviders and getAdapters
FetchInitialDone(ok) ==
  /\ loading
  /\ IF ok
       THEN /\ providers' = srv
            /\ adapters' = AdapterIds
            /\ error' = error
       ELSE /\ error' = ErrMsg
            /\ UNCHANGED <<providers, adapters>>
  /\ loading' = FALSE
  /\ UNCHANGED <<srv>>
  /\ UNCHANGED <<viewVars, actVars, formVars, pureVars>>

\* ------------------------------------------------------ detail dialog
\* handleDetail up to its await
HandleDetail(name) ==
  /\ Interactive /\ Settled /\ NoDialogOpen
  /\ providers[name] # "absent"
  /\ Len(detailReqs) < MaxDetailReqs
  /\ detailOpen' = TRUE
  /\ detailLoading' = TRUE
  /\ detailError' = NoError
  /\ detail' = NoDetail
  /\ detailReqs' = Append(detailReqs, name)
  /\ UNCHANGED <<selectedInstrument, instrumentQuery, instrumentPage, rendered>>
  /\ lastViewInput' = "open"
  /\ renderCount' = 0
  /\ lastDetailName' = name
  /\ UNCHANGED <<pageVars, actVars, formVars, pureVars>>

RemoveAt(s, k) == SubSeq(s, 1, k - 1) \o SubSeq(s, k + 1, Len(s))

\* A response object never seen before: at a settled state the only
\* response object still referenced is the current detail.
FreshTok == IF detail.tok = 1 THEN 2 ELSE 1

\* handleDetail after its await: the k-th outstanding getProvider resolves
HandleDetailDone(k, ok) ==
  /\ Settled
  /\ k \in 1..Len(detailReqs)
  /\ ok => srv[detailReqs[k]] # "absent"
  /\ IF ok
       THEN /\ detail' = [name |-> detailReqs[k], tok |-> FreshTok]
            /\ detailError' = detailError
       ELSE /\ detailError' = ErrMsg
            /\ detail' = detail
  /\ detailLoading' = FALSE
  /\ detailReqs' = RemoveAt(detailReqs, k)
  /\ UNCHANGED <<detailOpen, selectedInstrument, instrumentQuery, instrumentPage,
                 rendered>>
  /\ lastViewInput' = (IF ~ok THEN "detailFailed"
                       ELSE IF detail # NoDetail /\ detail.name # detailReqs[k]
                         THEN "detailReplaced" ELSE "detailLoaded")
  /\ renderCount' = 0
  /\ UNCHANGED lastDetailName
  /\ UNCHANGED <<pageVars, actVars, formVars, pureVars>>

\* <Dialog open={detailOpen} onOpenChange={setDetailOpen}>: dismissed
DetailDialogClose ==
  /\ Interactive /\ Settled
  /\ detailOpen
  /\ detailOpen' = FALSE
  /\ UNCHANGED <<detail, detailLoading, detailError, selectedInstrument,
                 instrumentQuery, instrumentPage, rendered, detailReqs>>
  /\ lastViewInput' = "close"
  /\ renderCount' = 0
  /\ UNCHANGED lastDetailName
  /\ UNCHANGED <<pageVars, actVars, formVars, pureVars>>

\* The instrument list of the detail dialog is on screen.
BrowserShown ==
  /\ Interactive /\ detailOpen /\ ~detailLoading /\ detail # NoDetail
  /\ Len(InstrumentsOf(detail.name)) # 0

\* search box onChange
InstrumentQueryChange(q) ==
  /\ BrowserShown /\ Settled
  /\ q # instrumentQuery
  /\ instrumentQuery' = q
  /\ UNCHANGED <<detailOpen, detail, detailLoading, detailError, selectedInstrument,
                 instrumentPage, rendered, detailReqs>>
  /\ lastViewInput' = "query"
  /\ renderCount' = 0
  /\ UNCHANGED lastDetailName
  /\ UNCHANGED <<pageVars, actVars, formVars, pureVars>>

\* The positions of the current page whose button the model clicks.
ClickPositions ==
  LET n == Len(currentPageInstruments(detail, instrumentQuery, instrumentPage))
  IN { k \in 1..n : k <= MaxClickPos \/ k = n }

\* click on the k-th button of the current page
InstrumentClick(k) ==
  /\ BrowserShown /\ Settled
  /\ selectedInstrument' =
       InstrumentObj(detail,
         currentPageInstruments(detail, instrumentQuery, instrumentPage)[k])
  /\ UNCHANGED <<detailOpen, detail, detailLoading, detailError, instrumentQuery,
                 instrumentPage, rendered, detailReqs>>
  /\ lastViewInput' = "click"
  /\ renderCount' = 0
  /\ UNCHANGED lastDetailName
  /\ UNCHANGED <<pageVars, actVars, formVars, pureVars>>

\* The pager row is rendered.
PagerShown ==
  /\ BrowserShown
  /\ Len(filteredInstruments(detail, instrumentQuery)) # 0
  /\ totalInstrumentPages(detail, instrumentQuery) > 1

PreviousPage ==
  /\ PagerShown /\ Settled
  /\ effectiveInstrumentPage(detail, instrumentQuery, instrumentPage) # 0
  /\ instrumentPage' = Max(instrumentPage - 1, 0)
  /\ UNCHANGED <<detailOpen, detail, detailLoading, detailError, selectedInstrument,
                 instrumentQuery, rendered, detailReqs>>
  /\ lastViewInput' = "previous"
  /\ renderCount' = 0
  /\ UNCHANGED lastDetailName
  /\ UNCHANGED <<pageVars, actVars, formVars, pureVars>>

NextPage ==
  /\ PagerShown /\ Settled
  /\ ~ ( \/ totalInstrumentPages(detail, instrumentQuery) = 0
         \/ effectiveInstrumentPage(detail, instrumentQuery, instrumentPage)
              >= totalInstrumentPages(detail, instrumentQuery) - 1 )
  /\ instrumentPage' =
       IF totalInstrumentPages(detail, instrumentQuery) = 0 THEN 0
       ELSE Min(instrumentPage + 1, totalInstrumentPages(detail, instrumentQuery) - 1)
  /\ UNCHANGED <<detailOpen, detail, detailLoading, detailError, selectedInstrument,
                 instrumentQuery, rendered, detailReqs>>
  /\ lastViewInput' = "next"
  /\ renderCount' = 0
  /\ UNCHANGED lastDetailName
  /\ UNCHANGED <<pageVars, actVars, formVars, pureVars>>

\* ------------------------------------------------- lifecycle actions
NoNotice == <<"<null>">>

\* A pending timer of the notice effect: the notice it was started for, and
\* (history) whether setActionNotice has been called again since, with the
\* same text, so that the effect did not run again.
Timer(notice) == [notice |-> notice, superseded |-> FALSE]

\* The notice effect (dependencies [actionNotice]) in the render that follows
\* a handler segment leaving the notice at `next`: when the value changed,
\* the cleanup of the previous run clears its timer and a non-null notice
\* starts a fresh one; when it did not change, the effect does not run.
NoticeTimerEffect(next) ==
  IF next # actionNotice
    THEN IF next = NoNotice THEN {} ELSE {Timer(next)}
    ELSE { [t EXCEPT !.superseded = TRUE] : t \in noticeTimers }

\* A running lifecycle handler: the action, the provider, the await it is
\* suspended at, and (history) whether no other lifecycle handler has run
\* while it did.
ActionReq(kind, name) ==
  [kind |-> kind, name |-> name, stage |-> "call", solo |-> actionReqs = <<>>]

\* handleStart / handleStop / handleDelete up to the first await
BeginAction(kind, name) ==
  /\ actionError' = NoError
  /\ actionNotice' = NoNotice
  /\ noticeTimers' = NoticeTimerEffect(NoNotice)
  /\ pendingAction' = name
  /\ actionReqs' = Append([i \in 1..Len(actionReqs) |->
                              [actionReqs[i] EXCEPT !.solo = FALSE]],
                          ActionReq(kind, name))
  /\ UNCHANGED <<pageVars, viewVars, formVars, pureVars>>

\* const isPending = pendingAction === provider.name (page.tsx:588)
isPending(name) == pendingAction = name

\* "Start" button of the card of a provider shown as stopped
HandleStart(name) ==
  /\ Interactive /\ Settled /\ NoDialogOpen
  /\ providers[name] = "stopped"
  /\ ~isPending(name)
  /\ Len(actionReqs) < MaxActionReqs
  /\ BeginAction("start", name)

\* "Stop" button of the card of a provider shown as running
HandleStop(name) ==
  /\ Interactive /\ Settled /\ NoDialogOpen
  /\ providers[name] = "running"
  /\ ~isPending(name)
  /\ Len(actionReqs) < MaxActionReqs
  /\ BeginAction("stop", name)

\* "Delete" button; window.confirm answered with `confirmed`
HandleDelete(name, confirmed) ==
  /\ Interactive /\ Settled /\ NoDialogOpen
  /\ providers[name] # "absent"
  /\ ~isPending(name)
  /\ Len(actionReqs) < MaxActionReqs
  /\ IF confirmed
       THEN BeginAction("delete", name)
       ELSE UNCHANGED vars

\* What the gateway's provider table becomes when the request succeeds.
ServerAfter(kind, name) ==
  [srv EXCEPT ![name] = CASE kind = "start"  -> "running"
                          [] kind = "stop"   -> "stopped"
                          [] OTHER           -> "absent"]

\* The lifecycle handlers as they would be if pendingAction were cleared only
\* after a successful call (no finally block).
ActionCallDone_NoFinally(k, ok) ==
  /\ Settled
  /\ k \in 1..Len(actionReqs)
  /\ actionReqs[k].stage = "call"
  /\ ok => srv[actionReqs[k].name] # "absent"
  /\ IF ok
       THEN /\ srv' = ServerAfter(actionReqs[k].kind, actionReqs[k].name)
            /\ actionReqs' = [actionReqs EXCEPT ![k].stage = "refresh"]
            /\ UNCHANGED <<actionError, pendingAction>>
       ELSE /\ actionError' = ErrMsg
            /\ pendingAction' = pendingAction
            /\ actionReqs' = RemoveAt(actionReqs, k)
            /\ UNCHANGED srv
  /\ UNCHANGED <<loading, error, providers, adapters, actionNotice, noticeTimers>>
  /\ UNCHANGED <<viewVars, formVars, pureVars>>

\* The lifecycle handlers as they would be if refreshProviders also ran after
\* a failed call (as in a finally block).
ActionCallDone_RefreshesOnFailure(k, ok) ==
  /\ Settled
  /\ k \in 1..Len(actionReqs)
  /\ actionReqs[k].stage = "call"
  /\ ok => srv[actionReqs[k].name] # "absent"
  /\ IF ok
       THEN /\ srv' = ServerAfter(actionReqs[k].kind, actionReqs[k].name)
            /\ actionReqs' = [actionReqs EXCEPT ![k].stage = "refresh"]
            /\ UNCHANGED <<actionError, pendingAction, providers>>
       ELSE /\ actionError' = ErrMsg
            /\ pendingAction' = NoName
            /\ actionReqs' = RemoveAt(actionReqs, k)
            /\ providers' = srv
            /\ UNCHANGED srv
  /\ UNCHANGED <<loading, error, adapters, actionNotice, noticeTimers>>
  /\ UNCHANGED <<viewVars, formVars, pureVars>>

\* startProvider / stopProvider / deleteProvider of the k-th handler resolves:
\* on success the handler goes on to refreshProviders (getProviders is
\* issued), on failure it records the error and finishes.
ActionCallDone(k, ok) ==
  /\ Settled
  /\ k \in 1..Len(actionReqs)
  /\ actionReqs[k].stage = "call"
  /\ ok => srv[actionReqs[k].name] # "absent"
  /\ IF ok
       THEN /\ srv' = ServerAfter(actionReqs[k].kind, actionReqs[k].name)
            /\ actionReqs' = [actionReqs EXCEPT ![k].stage = "refresh"]
            /\ UNCHANGED <<actionError, pendingAction>>
       ELSE /\ actionError' = ErrMsg
            /\ pendingAction' = NoName
            /\ actionReqs' = RemoveAt(actionReqs, k)
            /\ UNCHANGED srv
  /\ UNCHANGED <<loading, error, providers, adapters, actionNotice, noticeTimers>>
  /\ UNCHANGED <<viewVars, formVars, pureVars>>

\* refreshProviders of the k-th handler resolves (it catches its own
\* failure), then the handler sets the notice and clears pendingAction.
ActionRefreshDone(k, ok) ==
  /\ Settled
  /\ k \in 1..Len(actionReqs)
  /\ actionReqs[k].stage = "refresh"
  /\ IF ok
       THEN providers' = srv /\ actionError' = actionError
       ELSE providers' = providers /\ actionError' = ErrMsg
  /\ actionNotice' = <<actionReqs[k].name, actionReqs[k].kind>>
  /\ noticeTimers' = NoticeTimerEffect(actionNotice')
  /\ pendingAction' = NoName
  /\ actionReqs' = RemoveAt(actionReqs, k)
  /\ UNCHANGED <<loading, error, adapters, srv>>
  /\ UNCHANGED <<viewVars, formVars, pureVars>>

\* "Dismiss" button of the notice
NoticeDismiss ==
  /\ Interactive /\ Settled /\ NoDialogOpen
  /\ actionNotice # NoNotice
  /\ actionNotice' = NoNotice
  /\ noticeTimers' = NoticeTimerEffect(NoNotice)
  /\ UNCHANGED <<pendingAction, actionError, actionReqs>>
  /\ UNCHANGED <<pageVars, viewVars, formVars, pureVars>>

\* The callback of a pending timer runs, 4000 ms after it was started:
\* setActionNotice(null).
TimerFire(t) ==
  /\ t \in noticeTimers
  /\ actionNotice' = NoNotice
  /\ noticeTimers' = NoticeTimerEffect(NoNotice) \ {t}
  /\ UNCHANGED <<pendingAction, actionError, actionReqs>>
  /\ UNCHANGED <<pageVars, viewVars, formVars, pureVars>>

\* ------------------------------------------------- create / edit form
defaultFormState ==
  [name |-> <<>>, adapter |-> "", configValues |-> EmptyValues, enabled |-> TRUE]

\* The provider a name typed into the form denotes, as text.
NameChars(p) == <<"p", CHOOSE c \in {"1", "2", "3", "4"} : p = "p" \o c>>

ProviderOf(chars) == CHOOSE p \in ProviderNames : NameChars(p) = chars

\* Text typed into the name field.
NameInputs == { <<>>, <<" ">>, <<" ", "p", "4", " ">> }

\* Text typed into a settings field (numeric fields are rendered as number
\* inputs, which only hand over numeric text or the empty string).
FormRaws == { <<>>, <<"7">> }

\* detailResponse.adapter.identifier and detailResponse.settings of getProvider
ProviderAdapterId(name) == IF name \in {"p1", "p3"} THEN "binance" ELSE "sim"

ProviderSettings(name) ==
  CASE name = "p1" -> [NoSettings EXCEPT !["apiKey"] = Str(<<"k">>),
                                         !["depth"] = Num(10, 0)]
    [] name = "p2" -> [NoSettings EXCEPT !["depth"] = Null,
                                         !["live"] = Bool(TRUE)]
    [] name = "p3" -> [NoSettings EXCEPT !["legacy"] = Str(<<"x">>),
                                         !["depth"] = Num(15, -1)]
    [] OTHER       -> NoSettings

NoFormError == <<"", "<null>">>
FormMessage(text) == <<"", text>>

\* adapters.find(adapter => adapter.identifier === formState.adapter)
selectedAdapter ==
  IF \E i \in 1..Len(adapters) : adapters[i] = formState.adapter
    THEN AdapterMeta(formState.adapter) ELSE NoAdapter

\* resetForm
resetForm ==
  /\ formState' = defaultFormState
  /\ formError' = NoFormError
  /\ formLoading' = FALSE

\* handleFormOpenChange(false) as it would be if it only closed the dialog and
\* reset the fields, leaving the mode as it was.
HandleFormClose_KeepsMode ==
  /\ UNCHANGED fieldInputs
  /\ Interactive /\ Settled
  /\ formOpen
  /\ formOpen' = FALSE
  /\ resetForm
  /\ formMode' = formMode
  /\ UNCHANGED <<submitting, editReqs, saveReqs>>
  /\ UNCHANGED <<pageVars, viewVars, actVars, pureVars>>

\* handleFormOpenChange(false): Cancel button, or the dialog dismissed
HandleFormClose ==
  /\ UNCHANGED fieldInputs
  /\ Interactive /\ Settled
  /\ formOpen
  /\ formOpen' = FALSE
  /\ resetForm
  /\ formMode' = "create"
  /\ UNCHANGED <<submitting, editReqs, saveReqs>>
  /\ UNCHANGED <<pageVars, viewVars, actVars, pureVars>>

\* handleCreateClick as it would be if opening the form also cleared the
\* submitting flag.
HandleCreateClick_ClearsSubmitting ==
  /\ UNCHANGED fieldInputs
  /\ Interactive /\ Settled /\ NoDialogOpen
  /\ formMode' = "create"
  /\ resetForm
  /\ formOpen' = TRUE
  /\ submitting' = FALSE
  /\ UNCHANGED <<editReqs, saveReqs>>
  /\ UNCHANGED <<pageVars, viewVars, actVars, pureVars>>

HandleCreateClick ==
  /\ UNCHANGED fieldInputs
  /\ Interactive /\ Settled /\ NoDialogOpen
  /\ formMode' = "create"
  /\ resetForm
  /\ formOpen' = TRUE
  /\ UNCHANGED <<submitting, editReqs, saveReqs>>
  /\ UNCHANGED <<pageVars, viewVars, actVars, pureVars>>

\* The form fields are on screen.
FormShown == Interactive /\ formOpen /\ ~formLoading

\* name input onChange
NameChange(text) ==
  /\ fieldInputs < MaxFieldInputs
  /\ fieldInputs' = fieldInputs + 1
  /\ FormShown /\ Settled
  /\ formMode # "edit"
  /\ text # formState.name
  /\ formState' = [formState EXCEPT !.name = text]
  /\ UNCHANGED <<formOpen, formMode, formError, formLoading, submitting,
                 editReqs, saveReqs>>
  /\ UNCHANGED <<pageVars, viewVars, actVars, pureVars>>

\* handleAdapterChange as it would be if it merged the rebuilt values into the
\* previous map ({ ...prev.configValues, ...buildConfigValues(metadata) }).
HandleAdapterChange_Merges(identifier) ==
  /\ fieldInputs < MaxFieldInputs
  /\ fieldInputs' = fieldInputs + 1
  /\ FormShown /\ Settled
  /\ Len(adapters) # 0
  /\ \E i \in 1..Len(adapters) : adapters[i] = identifier
  /\ identifier # formState.adapter
  /\ LET built == buildConfigValues(AdapterMeta(identifier), NoSettings)
     IN formState' = [formState EXCEPT
                        !.adapter = identifier,
                        !.configValues = [k \in FieldNames |->
                           IF built[k] # Missing THEN built[k]
                           ELSE formState.configValues[k]]]
  /\ UNCHANGED <<formOpen, formMode, formError, formLoading, submitting,
                 editReqs, saveReqs>>
  /\ UNCHANGED <<pageVars, viewVars, actVars, pureVars>>

HandleAdapterChange(identifier) ==
  /\ fieldInputs < MaxFieldInputs
  /\ fieldInputs' = fieldInputs + 1
  /\ FormShown /\ Settled
  /\ Len(adapters) # 0
  /\ \E i \in 1..Len(adapters) : adapters[i] = identifier
  /\ identifier # formState.adapter
  /\ formState' = [formState EXCEPT
                     !.adapter = identifier,
                     !.configValues = buildConfigValues(AdapterMeta(identifier), NoSettings)]
  /\ UNCHANGED <<formOpen, formMode, formError, formLoading, submitting,
                 editReqs, saveReqs>>
  /\ UNCHANGED <<pageVars, viewVars, actVars, pureVars>>

HandleConfigChange(key, value) ==
  /\ fieldInputs < MaxFieldInputs
  /\ fieldInputs' = fieldInputs + 1
  /\ FormShown /\ Settled
  /\ selectedAdapter.defined
  /\ key \in SchemaNames(selectedAdapter.settingsSchema)
  /\ value # (IF formState.configValues[key] # Missing
                THEN formState.configValues[key] ELSE <<>>)
  /\ formState' = [formState EXCEPT !.configValues[key] = value]
  /\ UNCHANGED <<formOpen, formMode, formError, formLoading, submitting,
                 editReqs, saveReqs>>
  /\ UNCHANGED <<pageVars, viewVars, actVars, pureVars>>

\* "Start provider after saving" select
EnabledChange(value) ==
  /\ fieldInputs < MaxFieldInputs
  /\ fieldInputs' = fieldInputs + 1
  /\ FormShown /\ Settled
  /\ value # formState.enabled
  /\ formState' = [formState EXCEPT !.enabled = value]
  /\ UNCHANGED <<formOpen, formMode, formError, formLoading, submitting,
                 editReqs, saveReqs>>
  /\ UNCHANGED <<pageVars, viewVars, actVars, pureVars>>

\* handleEdit up to its await
HandleEdit(name) ==
  /\ UNCHANGED fieldInputs
  /\ Interactive /\ Settled /\ NoDialogOpen
  /\ providers[name] # "absent"
  /\ Len(editReqs) < MaxEditReqs
  /\ formMode' = "edit"
  /\ formOpen' = TRUE
  /\ formLoading' = TRUE
  /\ formError' = NoFormError
  /\ editReqs' = Append(editReqs, name)
  /\ UNCHANGED <<formState, submitting, saveReqs>>
  /\ UNCHANGED <<pageVars, viewVars, actVars, pureVars>>

\* handleEdit after its await: the k-th outstanding getProvider resolves
HandleEditDone(k, ok) ==
  /\ UNCHANGED fieldInputs
  /\ Settled
  /\ k \in 1..Len(editReqs)
  /\ ok => srv[editReqs[k]] # "absent"
  /\ IF ok
       THEN /\ formState' =
                 [name |-> NameChars(editReqs[k]),
                  adapter |-> ProviderAdapterId(editReqs[k]),
                  configValues |->
                    buildConfigValues(AdapterMeta(ProviderAdapterId(editReqs[k])),
                                      ProviderSettings(editReqs[k])),
                  enabled |-> srv[editReqs[k]] = "running"]
            /\ formError' = formError
       ELSE /\ formError' = FormMessage(ErrMsg)
            /\ formState' = formState
  /\ formLoading' = FALSE
  /\ editReqs' = RemoveAt(editReqs, k)
  /\ UNCHANGED <<formOpen, formMode, submitting, saveReqs>>
  /\ UNCHANGED <<pageVars, viewVars, actVars, pureVars>>

\* The error that blocks the submit, NoFormError when every check passes
\* (page.tsx:442-456, in the order of the code).
\* Mutant of the submit checks: the adapter is checked before the name.
SubmitErrorOf_AdapterFirst(collected) ==
  IF ~selectedAdapter.defined THEN FormMessage("Adapter selection is required")
  ELSE IF Trim(formState.name) = <<>> THEN FormMessage("Provider name is required")
  ELSE IF IsError(collected) THEN collected.error
  ELSE NoFormError

SubmitErrorOf(collected) ==
  IF Trim(formState.name) = <<>> THEN FormMessage("Provider name is required")
  ELSE IF ~selectedAdapter.defined THEN FormMessage("Adapter selection is required")
  ELSE IF IsError(collected) THEN collected.error
  ELSE NoFormError

SubmitError ==
  SubmitErrorOf(collectConfigPayload(selectedAdapter, formState.configValues))

\* The ProviderRequest as it would be if the name were sent as typed.
SubmitPayload_UntrimmedName ==
  [name |-> formState.name,
   identifier |-> selectedAdapter.identifier,
   config |-> collectConfigPayload(selectedAdapter, formState.configValues).config,
   enabled |-> formState.enabled]

\* ProviderRequest built by handleFormSubmit
SubmitPayload ==
  [name |-> Trim(formState.name),
   identifier |-> selectedAdapter.identifier,
   config |-> collectConfigPayload(selectedAdapter, formState.configValues).config,
   enabled |-> formState.enabled]

\* handleFormSubmit up to its first await
HandleFormSubmit ==
  /\ UNCHANGED fieldInputs
  /\ FormShown /\ Settled
  /\ ~(submitting \/ formLoading)
  /\ Len(saveReqs) < MaxSaveReqs
  /\ actionNotice' = NoNotice
  /\ noticeTimers' = NoticeTimerEffect(NoNotice)
  /\ formError' = SubmitError
  /\ IF formError' # NoFormError
       THEN UNCHANGED <<submitting, saveReqs>>
       ELSE /\ submitting' = TRUE
            /\ saveReqs' = Append(saveReqs,
                 [mode |-> formMode, key |-> Trim(formState.name),
                  payload |-> SubmitPayload, stage |-> "save"])
  /\ UNCHANGED <<formOpen, formMode, formState, formLoading, editReqs>>
  /\ UNCHANGED <<pendingAction, actionError, actionReqs>>
  /\ UNCHANGED <<pageVars, viewVars, pureVars>>

\* What the gateway's provider table becomes when the save succeeds: a created
\* provider appears, started when enabled; an update keeps the entry.
ServerAfterSave(req) ==
  IF req.mode = "create"
    THEN [srv EXCEPT ![ProviderOf(req.key)] =
            IF req.payload.enabled THEN "running" ELSE "stopped"]
    ELSE srv

\* handleFormSubmit as it would be if a failed save also closed the dialog
\* (handleFormOpenChange(false) in the finally block).
SaveDone_ClosesOnFailure(k, ok) ==
  /\ UNCHANGED fieldInputs
  /\ Settled
  /\ k \in 1..Len(saveReqs)
  /\ saveReqs[k].stage = "save"
  /\ ok => IF saveReqs[k].mode = "create"
             THEN srv[ProviderOf(saveReqs[k].key)] = "absent"
             ELSE srv[ProviderOf(saveReqs[k].key)] # "absent"
  /\ IF ok
       THEN /\ srv' = ServerAfterSave(saveReqs[k])
            /\ saveReqs' = [saveReqs EXCEPT ![k].stage = "refresh"]
            /\ UNCHANGED <<formError, submitting>>
            /\ UNCHANGED <<formOpen, formMode, formState, formLoading>>
       ELSE /\ formError' = FormMessage(ErrMsg)
            /\ submitting' = FALSE
            /\ saveReqs' = RemoveAt(saveReqs, k)
            /\ formOpen' = FALSE
            /\ formState' = defaultFormState
            /\ formLoading' = FALSE
            /\ formMode' = "create"
            /\ UNCHANGED srv
  /\ UNCHANGED editReqs
  /\ UNCHANGED <<loading, error, providers, adapters>>
  /\ UNCHANGED <<viewVars, actVars, pureVars>>

\* createProvider / updateProvider of the k-th submit resolves: on success
\* the handler goes on to refreshProviders, on failure it records the error.
SaveDone(k, ok) ==
  /\ UNCHANGED fieldInputs
  /\ Settled
  /\ k \in 1..Len(saveReqs)
  /\ saveReqs[k].stage = "save"
  /\ ok => IF saveReqs[k].mode = "create"
             THEN srv[ProviderOf(saveReqs[k].key)] = "absent"
             ELSE srv[ProviderOf(saveReqs[k].key)] # "absent"
  /\ IF ok
       THEN /\ srv' = ServerAfterSave(saveReqs[k])
            /\ saveReqs' = [saveReqs EXCEPT ![k].stage = "refresh"]
            /\ UNCHANGED <<formError, submitting>>
       ELSE /\ formError' = FormMessage(ErrMsg)
            /\ submitting' = FALSE
            /\ saveReqs' = RemoveAt(saveReqs, k)
            /\ UNCHANGED srv
  /\ UNCHANGED <<formOpen, formMode, formState, formLoading, editReqs>>
  /\ UNCHANGED <<loading, error, providers, adapters>>
  /\ UNCHANGED <<viewVars, actVars, pureVars>>

\* refreshProviders of the k-th submit resolves, then the notice is set, the
\* dialog is closed (handleFormOpenChange(false)) and submitting is cleared.
SaveRefreshDone(k, ok) ==
  /\ UNCHANGED fieldInputs
  /\ Settled
  /\ k \in 1..Len(saveReqs)
  /\ saveReqs[k].stage = "refresh"
  /\ IF ok
       THEN providers' = srv /\ actionError' = actionError
       ELSE providers' = providers /\ actionError' = ErrMsg
  /\ actionNotice' = <<ProviderOf(saveReqs[k].key),
                       IF saveReqs[k].mode = "create" THEN "created" ELSE "updated">>
  /\ noticeTimers' = NoticeTimerEffect(actionNotice')
  /\ formOpen' = FALSE
  /\ resetForm
  /\ formMode' = "create"
  /\ submitting' = FALSE
  /\ saveReqs' = RemoveAt(saveReqs, k)
  /\ UNCHANGED <<editReqs, pendingAction, actionReqs>>
  /\ UNCHANGED <<loading, error, adapters, srv>>
  /\ UNCHANGED <<viewVars, pureVars>>

\* ------------------------------------------ pure functions, applied once
\* Raw texts handed to parseConfigValue: every text of at most MaxRawLen
\* characters over CoerceAlphabet, and some longer words.
CoerceAlphabet == {"1", "5", ".", " ", "a", "-"}

CoerceWords ==
  { <<"1", "2">>,
    <<"1", ".", "5">>,
    <<"a", "b", "c">>,
    <<"1", "2", "a", "b", "c">>,
    <<"1", "e", "3">>,
    <<"+", "1", "2">>,
    <<"t", "r", "u", "e">>,
    <<"Y", "e", "s">>,
    <<" ", "o", "n", " ">>,
    <<"o", "f", "f">>,
    <<"m", "a", "y", "b", "e">>,
    <<"0">>,
    <<"N", "O">>,
    <<"F", "a", "l", "s", "e">>,
    <<" ", "T", "R", "U", "E">>,
    <<"1", "0">>,
    <<"1", ".", "5", "x">> }

CoerceRaws ==
  UNION { [1..k -> CoerceAlphabet] : k \in 0..MaxRawLen } \cup CoerceWords

\* Type tags of the settings handed to parseConfigValue.
CoerceTypes ==
  { <<"i", "n", "t">>,
    <<"I", "N", "T", "E", "G", "E", "R">>,
    <<"I", "n", "t">>,
    <<"f", "l", "o", "a", "t">>,
    <<"D", "o", "u", "b", "l", "e">>,
    <<"n", "u", "m", "b", "e", "r">>,
    <<"b", "o", "o", "l">>,
    <<"B", "O", "O", "L", "E", "A", "N">>,
    <<"s", "t", "r", "i", "n", "g">>,
    <<"t", "e", "x", "t">>,
    <<"I", "n", "t", "s">>,
    <<>> }

\* Settings schemas handed to collectConfigPayload: every sequence of at
\* most MaxSchemaLen of these fields.
CollectFields ==
  { Field("depth", <<"I","N","T">>, Num(5, 0), FALSE),
    Field("depth", <<"i","n","t","e","g","e","r">>, Undefined, TRUE),
    Field("apiKey", <<"s","t","r","i","n","g">>, Null, TRUE),
    Field("live", <<"B","o","o","l">>, Bool(FALSE), FALSE),
    Field("live", <<"b","o","o","l","e","a","n">>, Undefined, TRUE) }

CollectSchemas == UNION { [1..k -> CollectFields] : k \in 1..MaxSchemaLen }

\* What a key of the values map handed to collectConfigPayload holds.
CollectRaws == { Missing, <<" ">>, <<"0">>, <<"n", "o">>, <<"x">> }

IdleCoerce ==
  [setting |-> Field("", <<>>, Undefined, FALSE), raw |-> <<>>,
   done |-> FALSE, result |-> Value(Undefined)]

IdleCollect ==
  [schema |-> <<>>, values |-> EmptyValues, done |-> FALSE,
   result |-> [config |-> EmptyConfig, error |-> <<"", "">>]]

\* The filtered list handed to the pagination: its elements are their own
\* positions 1..n, so a slice shows which elements it holds.
IdlePaginate ==
  [stage |-> "idle", filtered |-> <<>>, page |-> 0,
   totalPages |-> 0, effectivePage |-> 0, slice |-> <<>>,
   displayStart |-> 0, displayEnd |-> 0]

\* page.tsx:307-316 on one filtered list and stored page
ApplyPaginate ==
  /\ paginateCall.stage = "args"
  /\ paginateCall' =
       [paginateCall EXCEPT
          !.stage = "done",
          !.totalPages = PagesOf(Len(paginateCall.filtered)),
          !.effectivePage = EffectivePageOf(Len(paginateCall.filtered), paginateCall.page),
          !.slice = PageSliceOf(paginateCall.filtered, paginateCall.page),
          !.displayStart = DisplayStartOf(Len(paginateCall.filtered), paginateCall.page),
          !.displayEnd = DisplayEndOf(paginateCall.filtered, paginateCall.page)]
  /\ UNCHANGED <<pageVars, viewVars, actVars, formVars>>
  /\ UNCHANGED <<coerceCall, collectCall, resyncCall, filterCall, buildCall>>

\* The render values handed to the resync effect.
IdleResync ==
  [stage |-> "idle",
   r |-> [detailOpen |-> TRUE, detail |-> NoDetail, query |-> <<>>, page |-> 0,
          selected |-> NoInstrument],
   result |-> NoInstrument]

\* The previous selections handed to the resync effect: none, or an
\* instrument of some response for p1 or p2.
ResyncSelections ==
  {NoInstrument} \cup
  { [name |-> n, tok |-> t, idx |-> i] :
      n \in {"p1", "p2"}, t \in 1..MaxResyncTok, i \in {1, 2, 3} }
  \cup { [name |-> "p1", tok |-> t, idx |-> INSTRUMENTS_PAGE_SIZE + 1] :
           t \in 1..MaxResyncTok }

\* The selection the resync effect leaves after one run on render r
\* (page.tsx:279-305).
ApplyResync ==
  /\ resyncCall.stage = "args"
  /\ resyncCall' =
       [resyncCall EXCEPT
          !.stage = "done",
          !.result = SelectionResyncEffect(resyncCall.r,
                       [query |-> resyncCall.r.query, page |-> resyncCall.r.page,
                        selected |-> resyncCall.r.selected]).selected]
  /\ UNCHANGED <<pageVars, viewVars, actVars, formVars>>
  /\ UNCHANGED <<coerceCall, collectCall, paginateCall, filterCall, buildCall>>

\* Instruments handed to the filter: with primary fields, with legacy
\* fields only, without a symbol, and with both a primary and a legacy field.
FilterPool ==
  { [symbol |-> <<"B", "T", "C", "U", "S", "D", "T">>,
     baseAsset |-> <<"B", "T", "C">>, base_currency |-> Absent,
     quoteAsset |-> <<"U", "S", "D", "T">>, quote_currency |-> Absent],
    [symbol |-> <<"E", "T", "H", "U", "S", "D", "T">>,
     baseAsset |-> <<"E", "T", "H">>, base_currency |-> Absent,
     quoteAsset |-> <<"U", "S", "D", "T">>, quote_currency |-> Absent],
    [symbol |-> <<"X", "R", "P", "1">>,
     baseAsset |-> Absent, base_currency |-> <<"B", "t", "c">>,
     quoteAsset |-> Absent, quote_currency |-> <<"u", "s", "d">>],
    [symbol |-> Absent,
     baseAsset |-> Absent, base_currency |-> Absent,
     quoteAsset |-> <<"b", "t", "c">>, quote_currency |-> <<"Z", "Z">>],
    [symbol |-> <<"A", "D", "A">>,
     baseAsset |-> <<"X", "R", "P">>, base_currency |-> <<"B", "T", "C">>,
     quoteAsset |-> <<>>, quote_currency |-> Absent] }

\* detail.instruments: every list of at most MaxInstruments of them
FilterLists == UNION { [1..k -> FilterPool] : k \in 0..MaxInstruments }

\* instrumentQuery
FilterQueries ==
  { <<>>,
    <<" ">>,
    <<"b", "t", "c">>,
    <<" ", "B", "T", "C", " ">>,
    <<"u", "s", "d">>,
    <<"z", "z">>,
    <<"t">> }

IdleFilter == [stage |-> "idle", instruments |-> <<>>, query |-> <<>>, result |-> <<>>]

\* The useMemo body of filteredInstruments on one instrument list and query:
\* the positions of the instruments kept.
ApplyFilter ==
  /\ filterCall.stage = "args"
  /\ filterCall' =
       [filterCall EXCEPT
          !.stage = "done",
          !.result = FilterInstruments(filterCall.instruments, filterCall.query)]
  /\ UNCHANGED <<pageVars, viewVars, actVars, formVars>>
  /\ UNCHANGED <<coerceCall, collectCall, paginateCall, resyncCall, buildCall>>

\* The schema fields buildConfigValues is exercised on.
BuildFields ==
  { Field("depth", <<"I","N","T">>, Num(5, 0), FALSE),
    Field("depth", <<"i","n","t","e","g","e","r">>, Undefined, TRUE),
    Field("apiKey", <<"s","t","r","i","n","g">>, Null, TRUE),
    Field("apiKey", <<"s","t","r","i","n","g">>, Str(<<"k">>), FALSE),
    Field("live", <<"B","o","o","l">>, Bool(FALSE), FALSE) }

\* settingsSchema lists whose field names are distinct (the form renders the
\* fields with key={setting.name}).
BuildSchemas ==
  { schema \in UNION { [1..k -> BuildFields] : k \in 0..MaxSchemaLen } :
      \A i, j \in 1..Len(schema) : schema[i].name = schema[j].name => i = j }

\* metadata: an adapter of the list, or undefined when find() has no match
BuildMetadata ==
  {NoAdapter} \cup
  { [identifier |-> "binance", settingsSchema |-> schema, defined |-> TRUE] :
      schema \in BuildSchemas }

\* What a property of detailResponse.settings can hold (Undefined: no own
\* property of that name).
BuildExistingValues ==
  { Undefined, Null, Num(15, -1), Bool(TRUE), Str(<<>>), Obj(<<"{", "}">>) }

BuildExisting == [FieldNames -> BuildExistingValues]

IdleBuild ==
  [stage |-> "idle", metadata |-> NoAdapter, existing |-> NoSettings,
   result |-> EmptyValues]

\* One call of buildConfigValues(metadata, existing).
ApplyBuild ==
  /\ buildCall.stage = "args"
  /\ buildCall' =
       [buildCall EXCEPT
          !.stage = "done",
          !.result = buildConfigValues(buildCall.metadata, buildCall.existing)]
  /\ UNCHANGED <<pageVars, viewVars, actVars, formVars>>
  /\ UNCHANGED <<coerceCall, collectCall, paginateCall, resyncCall, filterCall>>

ApplyCoerce ==
  /\ ~coerceCall.done
  /\ coerceCall.setting.name # ""
  /\ coerceCall' = [coerceCall EXCEPT
                      !.done = TRUE,
                      !.result = parseConfigValue(coerceCall.setting, coerceCall.raw)]
  /\ UNCHANGED <<pageVars, viewVars, actVars, formVars>>
  /\ UNCHANGED <<collectCall, paginateCall, resyncCall, filterCall, buildCall>>

ApplyCollect ==
  /\ ~collectCall.done
  /\ collectCall.schema # <<>>
  /\ collectCall' = [collectCall EXCEPT
                       !.done = TRUE,
                       !.result = collectConfigPayload(
                                    [identifier |-> "x", settingsSchema |-> collectCall.schema,
                                     defined |-> TRUE],
                                    collectCall.values)]
  /\ UNCHANGED <<pageVars, viewVars, actVars, formVars>>
  /\ UNCHANGED <<coerceCall, paginateCall, resyncCall, filterCall, buildCall>>

\* ------------------------------------------------------------ behaviour
InitUI ==
  /\ loading = TRUE
  /\ error = NoError
  /\ providers = [p \in ProviderNames |-> "absent"]
  /\ adapters = <<>>
  /\ srv = InitialServer
  /\ detailOpen = FALSE
  /\ detail = NoDetail
  /\ detailLoading = FALSE
  /\ detailError = NoError
  /\ selectedInstrument = NoInstrument
  /\ instrumentQuery = <<>>
  /\ instrumentPage = 0
  /\ rendered = [detailOpen |-> FALSE, detail |-> NoDetail, query |-> <<>>,
                 page |-> 0, selected |-> NoInstrument]
  /\ detailReqs = <<>>
  /\ lastViewInput = "none"
  /\ renderCount = 0
  /\ lastDetailName = NoName
  /\ pendingAction = NoName
  /\ actionError = NoError
  /\ actionNotice = NoNotice
  /\ noticeTimers = {}
  /\ actionReqs = <<>>
  /\ formOpen = FALSE
  /\ formMode = "create"
  /\ formState = defaultFormState
  /\ formError = NoFormError
  /\ formLoading = FALSE
  /\ submitting = FALSE
  /\ editReqs = <<>>
  /\ saveReqs = <<>>
  /\ fieldInputs = 0

Init ==
  /\ InitUI
  /\ coerceCall = IdleCoerce
  /\ collectCall = IdleCollect
  /\ paginateCall = IdlePaginate
  /\ resyncCall = IdleResync
  /\ filterCall = IdleFilter
  /\ buildCall = IdleBuild

\* One call of parseConfigValue, on any setting type and raw text.
InitCoerce ==
  /\ InitUI
  /\ \E type \in CoerceTypes, raw \in CoerceRaws :
       coerceCall = [IdleCoerce EXCEPT
                       !.setting = Field("depth", type, Undefined, FALSE),
                       !.raw = raw]
  /\ collectCall = IdleCollect
  /\ paginateCall = IdlePaginate
  /\ resyncCall = IdleResync
  /\ filterCall = IdleFilter
  /\ buildCall = IdleBuild

NextCoerce == ApplyCoerce

SpecCoerce == InitCoerce /\ [][NextCoerce]_vars

\* One call of collectConfigPayload, on any schema and values map.
InitCollect ==
  /\ InitUI
  /\ coerceCall = IdleCoerce
  /\ \E schema \in CollectSchemas, values \in [FieldNames -> CollectRaws] :
       collectCall = [IdleCollect EXCEPT !.schema = schema, !.values = values]
  /\ paginateCall = IdlePaginate
  /\ resyncCall = IdleResync
  /\ filterCall = IdleFilter
  /\ buildCall = IdleBuild

NextCollect == ApplyCollect

SpecCollect == InitCollect /\ [][NextCollect]_vars

\* One pagination, of any filtered length and stored page.
InitPaginate ==
  /\ InitUI
  /\ coerceCall = IdleCoerce
  /\ collectCall = IdleCollect
  /\ \E n \in 0..MaxFiltered, page \in 0..MaxRequestedPage :
       paginateCall = [IdlePaginate EXCEPT
                         !.stage = "args",
                         !.filtered = [i \in 1..n |-> i],
                         !.page = page]
  /\ resyncCall = IdleResync
  /\ filterCall = IdleFilter
  /\ buildCall = IdleBuild

NextPaginate == ApplyPaginate

SpecPaginate == InitPaginate /\ [][NextPaginate]_vars

\* One run of the resync effect, on any instrument set, query, stored page
\* and previous selection.
InitResync ==
  /\ InitUI
  /\ coerceCall = IdleCoerce
  /\ collectCall = IdleCollect
  /\ paginateCall = IdlePaginate
  /\ \E name \in {"p1", "p2", "p3"}, hasDetail \in BOOLEAN, q \in Queries,
        page \in 0..MaxResyncPage, selected \in ResyncSelections :
       resyncCall = [IdleResync EXCEPT
                       !.stage = "args",
                       !.r.detail = IF hasDetail THEN [name |-> name, tok |-> 1]
                                    ELSE NoDetail,
                       !.r.query = q, !.r.page = page, !.r.selected = selected]
  /\ filterCall = IdleFilter
  /\ buildCall = IdleBuild

NextResync == ApplyResync

SpecResync == InitResync /\ [][NextResync]_vars

\* One filtering, of any instrument list and query.
InitFilter ==
  /\ InitUI
  /\ coerceCall = IdleCoerce
  /\ collectCall = IdleCollect
  /\ paginateCall = IdlePaginate
  /\ resyncCall = IdleResync
  /\ \E instruments \in FilterLists, q \in FilterQueries :
       filterCall = [IdleFilter EXCEPT
                       !.stage = "args", !.instruments = instruments, !.query = q]
  /\ buildCall = IdleBuild

NextFilter == ApplyFilter

SpecFilter == InitFilter /\ [][NextFilter]_vars

InitBuild ==
  /\ InitUI
  /\ coerceCall = IdleCoerce
  /\ collectCall = IdleCollect
  /\ paginateCall = IdlePaginate
  /\ resyncCall = IdleResync
  /\ filterCall = IdleFilter
  /\ \E metadata \in BuildMetadata, existing \in BuildExisting :
       buildCall = [IdleBuild EXCEPT
                      !.stage = "args", !.metadata = metadata, !.existing = existing]

NextBuild == ApplyBuild

SpecBuild == InitBuild /\ [][NextBuild]_vars

\* The detail dialog and the instrument browser.
NextView ==
  \/ \E ok \in BOOLEAN : FetchInitialDone(ok)
  \/ \E name \in ProviderNames : HandleDetail(name)
  \/ \E k \in 1..MaxDetailReqs, ok \in BOOLEAN : HandleDetailDone(k, ok)
  \/ DetailDialogClose
  \/ \E q \in Queries : InstrumentQueryChange(q)
  \/ \E k \in ClickPositions : InstrumentClick(k)
  \/ PreviousPage
  \/ NextPage
  \/ Commit

SpecView == Init /\ [][NextView]_vars

\* The start / stop / delete buttons of the provider cards.
NextAct ==
  \/ \E ok \in BOOLEAN : FetchInitialDone(ok)
  \/ \E name \in ProviderNames : HandleStart(name)
  \/ \E name \in ProviderNames : HandleStop(name)
  \/ \E name \in ProviderNames, confirmed \in BOOLEAN : HandleDelete(name, confirmed)
  \/ \E k \in 1..MaxActionReqs, ok \in BOOLEAN : ActionCallDone(k, ok)
  \/ \E k \in 1..MaxActionReqs, ok \in BOOLEAN : ActionRefreshDone(k, ok)
  \/ NoticeDismiss
  \/ \E t \in noticeTimers : TimerFire(t)

SpecAct == Init /\ [][NextAct]_vars

\* The create / edit form.
NextForm ==
  \/ \E ok \in BOOLEAN : FetchInitialDone(ok)
  \/ HandleCreateClick
  \/ HandleFormClose
  \/ \E text \in NameInputs : NameChange(text)
  \/ \E i \in 1..Len(AdapterIds) : HandleAdapterChange(AdapterIds[i])
  \/ \E key \in FieldNames, value \in FormRaws : HandleConfigChange(key, value)
  \/ \E value \in BOOLEAN : EnabledChange(value)
  \/ \E name \in ProviderNames : HandleEdit(name)
  \/ \E k \in 1..MaxEditReqs, ok \in BOOLEAN : HandleEditDone(k, ok)
  \/ HandleFormSubmit
  \/ \E k \in 1..MaxSaveReqs, ok \in BOOLEAN : SaveDone(k, ok)
  \/ \E k \in 1..MaxSaveReqs, ok \in BOOLEAN : SaveRefreshDone(k, ok)

SpecForm == Init /\ [][NextForm]_vars

\* ------------------------------------------------- instrument browser claims
\* The instruments (objects) of the page slice now shown.
SliceObjects ==
  LET slice == currentPageInstruments(detail, instrumentQuery, instrumentPage)
  IN { InstrumentObj(detail, slice[k]) : k \in 1..Len(slice) }

\* slice[0] of page 0 of the filtered list, none when the list is empty
FirstOfPageZero ==
  LET slice == currentPageInstruments(detail, instrumentQuery, 0)
  IN IF slice = <<>> THEN NoInstrument ELSE InstrumentObj(detail, slice[1])

\* C1: once the effects have settled, the selected instrument is none if and
\* only if the current page slice is empty, and otherwise it is one of the
\* instruments of the current page slice.
C1_SelectionInSlice ==
  Settled =>
    /\ (selectedInstrument = NoInstrument) <=> (SliceObjects = {})
    /\ selectedInstrument # NoInstrument => selectedInstrument \in SliceObjects

\* C1 witness: settled on the second page of the instrument list, after a
\* click on an instrument of that page that is not its first one.
C1_Witness ==
  /\ Settled /\ lastViewInput = "click"
  /\ instrumentQuery = <<>> /\ instrumentPage = 1
  /\ selectedInstrument \in SliceObjects
  /\ selectedInstrument # InstrumentObj(detail,
        currentPageInstruments(detail, instrumentQuery, instrumentPage)[1])

\* C8 (as claimed): whenever the detail dialog is closed and the effects have
\* settled, the selection is none, the query is empty and the stored page is 0.
C8_ClosedViewIsReset ==
  (Settled /\ ~detailOpen) =>
    /\ selectedInstrument = NoInstrument
    /\ instrumentQuery = <<>>
    /\ instrumentPage = 0

\* C9 (as claimed): after the viewed detail was replaced by another provider's
\* detail and the effects have settled, the query is empty, the stored page
\* is 0 and the selection is the first instrument of page 0 of the new
\* instrument set (none if it is empty).
C9_ReplacedDetailIsReset ==
  (Settled /\ lastViewInput = "detailReplaced") =>
    /\ instrumentQuery = <<>>
    /\ instrumentPage = 0
    /\ selectedInstrument = FirstOfPageZero

\* C10 (as claimed): after a change of the query string, once the effects have
\* settled, the stored page index is 0.
C10_QueryChangeResetsPage ==
  (Settled /\ lastViewInput = "query") => instrumentPage = 0

\* ---------------------------------------------------- lifecycle claims
\* C2 (as claimed): no two start/stop/delete requests are in flight at the
\* same time for the same provider name.
C2_OneRequestPerName ==
  \A i, j \in 1..Len(actionReqs) :
    (i # j /\ actionReqs[i].stage = "call" /\ actionReqs[j].stage = "call")
      => actionReqs[i].name # actionReqs[j].name

\* ----------------------------------------------------------- form claims
\* C3 (as claimed): when a getProvider request of handleEdit resolves while
\* the form is in create mode (the edit dialog was closed, or closed and
\* reopened with "Create provider"), the form keeps its name, adapter, values
\* and enabled flag, and its error and loading flag.
C3_StaleEditKeepsForm ==
  [][ (Len(editReqs') < Len(editReqs) /\ formMode = "create")
        => /\ formState' = formState
           /\ formError' = formError
           /\ formLoading' = formLoading ]_vars

\* The first failing submit check in the order name, adapter, settings;
\* NoFormError when none fails.
C4_FirstFailure ==
  IF Trim(formState.name) = <<>>
    THEN <<"", "Provider name is required">>
  ELSE IF \A i \in 1..Len(adapters) : adapters[i] # formState.adapter
    THEN <<"", "Adapter selection is required">>
  ELSE LET collected == collectConfigPayload(AdapterMeta(formState.adapter),
                                             formState.configValues)
       IN IF collected.error # <<"", "">> THEN collected.error ELSE NoFormError

\* C4: a submit with a failing check sets formError to the error of the first
\* failing check (name, then adapter, then the settings in collectPayload's
\* order), issues no createProvider / updateProvider request and leaves the
\* form as entered.
C4_FailedSubmitBlocks ==
  [][ (HandleFormSubmit /\ C4_FirstFailure # NoFormError)
        => /\ formError' = C4_FirstFailure
           /\ saveReqs' = saveReqs
           /\ submitting' = submitting
           /\ formState' = formState /\ formOpen' = formOpen ]_vars

\* C4 witness: a create form with a name and the sim adapter, whose required
\* integer field depth was left blank, after the submit was blocked.
C4_Witness ==
  /\ formOpen /\ formMode = "create"
  /\ Trim(formState.name) = <<"p", "4">>
  /\ formState.adapter = "sim"
  /\ Trim(formState.configValues["depth"]) = <<>>
  /\ formError = <<"depth", " is required">>
  /\ saveReqs = <<>> /\ ~submitting

\* ------------------------------------------------ settings payload claims
\* The raw text collectPayload reads for a field name.
C5_RawOf(name) ==
  IF collectCall.values[name] # Missing THEN collectCall.values[name] ELSE <<>>

\* Field i of the schema fails: required and blank after trimming, or
\* non-blank and not coercible.
C5_Fails(i) ==
  LET setting == collectCall.schema[i]
  IN IF Trim(C5_RawOf(setting.name)) = <<>> THEN setting.required
     ELSE IsError(parseConfigValue(setting, C5_RawOf(setting.name)))

C5_ErrorOf(i) ==
  LET setting == collectCall.schema[i]
  IN IF Trim(C5_RawOf(setting.name)) = <<>> THEN <<setting.name, " is required">>
     ELSE parseConfigValue(setting, C5_RawOf(setting.name)).error

\* C5: when some field fails, collectPayload returns the error of the
\* earliest failing field in schema order, whatever the later fields hold,
\* together with an empty config.
C5_FirstErrorWins ==
  collectCall.done =>
    \A i \in 1..Len(collectCall.schema) :
      (C5_Fails(i) /\ \A j \in 1..(i - 1) : ~C5_Fails(j))
        => /\ collectCall.result.error = C5_ErrorOf(i)
           /\ collectCall.result.config = EmptyConfig

\* C5 witness: two fields of different names fail with different errors, and
\* the error returned is the one of the first.
C5_Witness ==
  /\ collectCall.done
  /\ Len(collectCall.schema) = 2
  /\ C5_Fails(1) /\ C5_Fails(2)
  /\ C5_ErrorOf(1) # C5_ErrorOf(2)
  /\ collectCall.result.error = C5_ErrorOf(1)

\* C6: when collectPayload succeeds, the payload holds exactly the schema
\* field names whose raw value is non-blank after trimming, each with its
\* coerced value; blank fields and keys outside the schema are absent.
C6_PayloadKeys ==
  (collectCall.done /\ ~IsError(collectCall.result)) =>
    \A k \in FieldNames :
      collectCall.result.config[k] =
        IF k \in SchemaNames(collectCall.schema) /\ Trim(C5_RawOf(k)) # <<>>
          THEN parseConfigValue(
                 collectCall.schema[LastIndexOf(collectCall.schema, k)],
                 C5_RawOf(k)).value
          ELSE NoEntry

\* C6 witness: a successful call whose payload holds the falsy values 0 and
\* false, on a values map that also holds a non-blank key outside the schema
\* and a blank one.
C6_Witness ==
  /\ collectCall.done /\ ~IsError(collectCall.result)
  /\ collectCall.result.config["depth"] = Num(0, 0)
  /\ collectCall.result.config["live"] = Bool(FALSE)
  /\ collectCall.values["legacy"] = <<"x">>
  /\ collectCall.values["apiKey"] = <<" ">>
  /\ collectCall.result.config["legacy"] = NoEntry
  /\ collectCall.result.config["apiKey"] = NoEntry

\* Integer text: an optional sign and one or more decimal digits.
C7_IsIntegerText(text) ==
  LET body == IF HasSign(text) THEN Tail(text) ELSE text
  IN body # <<>> /\ DigitsPrefix(body) = body

C7_IntegerOf(text) ==
  (IF IsNegative(text) THEN -1 ELSE 1)
    * DigitsValue(IF HasSign(text) THEN Tail(text) ELSE text)

\* C7 (as claimed): for a field of type int or integer (in any case), coerce
\* returns the base-10 integer when the trimmed text is integer text, and
\* fails with "<name> must be an integer" on every other text, fractional
\* text such as "1.5" included.
C7_IntegerCoercion ==
  (/\ coerceCall.done
   /\ ToLowerCase(coerceCall.setting.type)
        \in { <<"i","n","t">>, <<"i","n","t","e","g","e","r">> })
    => IF C7_IsIntegerText(Trim(coerceCall.raw))
         THEN coerceCall.result = Value(Num(C7_IntegerOf(Trim(coerceCall.raw)), 0))
         ELSE coerceCall.result =
                FieldError(coerceCall.setting.name, " must be an integer")

\* --------------------------------------------------- pagination claims
\* C11 (as claimed): whenever the component renders with a query other than
\* the one of its previous render, the stored page index it computes the
\* page slice, the display counters and the selection resync with has already
\* been reset to 0.
C11_PageResetBeforePaginate ==
  (/\ rendered.query # instrumentQuery
   /\ filteredInstruments(detail, instrumentQuery)
        # filteredInstruments(rendered.detail, rendered.query))
    => instrumentPage = 0

\* The last page of a filtered list: max(0, totalPages - 1).
C12_LastPage(d, q) == Max(0, totalInstrumentPages(d, q) - 1)

\* C12: the stored page index is never negative; once the effects have
\* settled it is at most the last page of the filtered list; a press of
\* Previous or Next leaves it within [0, last page]; and the render pass that
\* sees a shorter filtered list with the stored page beyond its last page sets
\* the stored page to that last page.
C12_StoredPageInRange ==
  /\ [](instrumentPage >= 0)
  /\ [](Settled => instrumentPage <= C12_LastPage(detail, instrumentQuery))
  /\ [][ (instrumentPage' # instrumentPage /\ rendered' = rendered)
           => instrumentPage' \in 0..C12_LastPage(detail, instrumentQuery) ]_vars
  /\ [][ (/\ rendered' # rendered
          /\ Len(filteredInstruments(detail, instrumentQuery))
               < Len(filteredInstruments(rendered.detail, rendered.query))
          /\ instrumentPage > C12_LastPage(detail, instrumentQuery))
           => instrumentPage' = C12_LastPage(detail, instrumentQuery) ]_vars

\* C12 witness: settled on the last page (1) of the 121 matches of "btc",
\* after the query was typed on page 2 of the full list.
C12_Witness ==
  /\ Settled /\ lastViewInput = "query"
  /\ instrumentQuery = <<"b", "t", "c">>
  /\ totalInstrumentPages(detail, instrumentQuery) = 2
  /\ instrumentPage = 1

\* ceil(n / 120): the least k with k * 120 >= n
C13_CeilPages(n) ==
  CHOOSE k \in 0..n : k * INSTRUMENTS_PAGE_SIZE >= n
                      /\ \A j \in 0..(k - 1) : j * INSTRUMENTS_PAGE_SIZE < n

\* C13: for a filtered list of length n and a stored page p >= 0, totalPages
\* is ceil(n / 120) (0 for n = 0) and effectivePage is 0 when totalPages is 0
\* and min(p, totalPages - 1) otherwise, so it is a page of the list.
C13_PagerInRange ==
  paginateCall.stage = "done" =>
    LET n == Len(paginateCall.filtered)
        p == paginateCall.page
    IN /\ paginateCall.totalPages = C13_CeilPages(n)
       /\ (n = 0) <=> (paginateCall.totalPages = 0)
       /\ paginateCall.effectivePage =
            (IF paginateCall.totalPages = 0 THEN 0
             ELSE IF p < paginateCall.totalPages - 1 THEN p
             ELSE paginateCall.totalPages - 1)
       /\ paginateCall.effectivePage >= 0
       /\ paginateCall.totalPages > 0
            => paginateCall.effectivePage < paginateCall.totalPages

\* C13 witness: 250 filtered instruments and requested page 5 give 3 pages
\* and effective page 2.
C13_Witness ==
  /\ paginateCall.stage = "done"
  /\ Len(paginateCall.filtered) = 250 /\ paginateCall.page = 5
  /\ paginateCall.totalPages = 3 /\ paginateCall.effectivePage = 2

\* C14: the page slice holds exactly the elements at the 0-based positions
\* [effectivePage * 120, effectivePage * 120 + 120) of the filtered list (as
\* far as the list goes), it is non-empty when the list is, and displayStart
\* and displayEnd are the 1-based positions of its first and last element,
\* both 0 for an empty list.
C14_SliceAndCounters ==
  paginateCall.stage = "done" =>
    LET n == Len(paginateCall.filtered)
        from == paginateCall.effectivePage * INSTRUMENTS_PAGE_SIZE
        slice == paginateCall.slice
    IN /\ \A i \in 1..n : (\E k \in 1..Len(slice) : slice[k] = i)
                            <=> (from < i /\ i <= from + INSTRUMENTS_PAGE_SIZE)
       /\ \A k \in 1..Len(slice) : slice[k] = from + k
       /\ n > 0 => slice # <<>>
       /\ IF n = 0
            THEN paginateCall.displayStart = 0 /\ paginateCall.displayEnd = 0
            ELSE /\ paginateCall.displayStart = slice[1]
                 /\ paginateCall.displayEnd = slice[Len(slice)]
                 /\ paginateCall.displayEnd - paginateCall.displayStart + 1 = Len(slice)
                 /\ paginateCall.displayEnd <= n

\* C14 witness: the last, partly filled page of 250 instruments shows the
\* elements 241 to 250.
C14_Witness ==
  /\ paginateCall.stage = "done"
  /\ Len(paginateCall.filtered) = 250 /\ paginateCall.page = 2
  /\ Len(paginateCall.slice) = 10
  /\ paginateCall.displayStart = 241 /\ paginateCall.displayEnd = 250

\* ------------------------------------------------------ resync claim
\* The page slice of the render handed to the resync effect, as instruments.
C15_Slice ==
  LET r == resyncCall.r
      slice == currentPageInstruments(r.detail, r.query, r.page)
  IN [k \in 1..Len(slice) |-> InstrumentObj(r.detail, slice[k])]

\* The positions of the slice whose symbol is that of the previous selection.
C15_Matches ==
  { k \in 1..Len(C15_Slice) : SymbolOf(C15_Slice[k]) = SymbolOf(resyncCall.r.selected) }

\* C15: one resync step leaves no selection when the slice is empty, slice[0]
\* when there was no selection, the first element of the slice with the
\* previous selection's symbol when there is one (the slice's element, not
\* the previous object), and slice[0] when no element has that symbol.
C15_ResyncStep ==
  resyncCall.stage = "done" =>
    resyncCall.result =
      (IF C15_Slice = <<>> THEN NoInstrument
       ELSE IF resyncCall.r.selected = NoInstrument THEN C15_Slice[1]
       ELSE IF C15_Matches # {}
         THEN C15_Slice[CHOOSE k \in C15_Matches : \A j \in C15_Matches : k <= j]
       ELSE C15_Slice[1])

\* C15 witness: the previous selection is an instrument of another response
\* whose symbol is that of the second and third element of the slice; the
\* selection becomes the second element of the slice.
C15_Witness ==
  /\ resyncCall.stage = "done"
  /\ resyncCall.r.selected # NoInstrument
  /\ resyncCall.r.selected.name # resyncCall.r.detail.name
  /\ C15_Matches = {2, 3}
  /\ resyncCall.result = C15_Slice[2]

\* ------------------------------------------------------- filter claim
\* t is a substring of s
C16_IsSubstring(t, s) ==
  \E i \in 1..(Len(s) + 1), j \in 0..Len(s) : SubSeq(s, i, j) = t

\* The primary field, else the legacy field, else the empty string.
C16_FirstOf(primary, legacy) ==
  IF primary # Absent THEN primary ELSE IF legacy # Absent THEN legacy ELSE <<>>

\* The instrument at position i is kept for the trimmed lowercase query.
C16_Kept(i) ==
  LET instrument == filterCall.instruments[i]
      query == ToLowerCase(Trim(filterCall.query))
  IN \/ C16_IsSubstring(query, ToLowerCase(C16_FirstOf(instrument.symbol, Absent)))
     \/ C16_IsSubstring(query, ToLowerCase(C16_FirstOf(instrument.baseAsset,
                                                       instrument.base_currency)))
     \/ C16_IsSubstring(query, ToLowerCase(C16_FirstOf(instrument.quoteAsset,
                                                       instrument.quote_currency)))

\* C16: the filter keeps every instrument, in order, when the query is empty
\* after trimming, and otherwise exactly the instruments, in original order,
\* whose lowercase symbol, base value or quote value contains the trimmed
\* lowercase query.
C16_FilterResult ==
  filterCall.stage = "done" =>
    LET n == Len(filterCall.instruments)
        result == filterCall.result
    IN /\ \A k \in 1..Len(result) : result[k] \in 1..n
       /\ \A k \in 1..(Len(result) - 1) : result[k] < result[k + 1]
       /\ IF Trim(filterCall.query) = <<>>
            THEN result = [i \in 1..n |-> i]
            ELSE \A i \in 1..n :
                   (\E k \in 1..Len(result) : result[k] = i) <=> C16_Kept(i)

\* C16 witness: the query " BTC " drops the ETH instrument and keeps one
\* instrument by its legacy base field and one, without symbol, by its quote
\* value.
C16_Witness ==
  /\ filterCall.stage = "done"
  /\ filterCall.query = <<" ", "B", "T", "C", " ">>
  /\ Len(filterCall.instruments) = 3
  /\ filterCall.instruments[1].symbol = <<"E","T","H","U","S","D","T">>
  /\ filterCall.instruments[2].base_currency = <<"B","t","c">>
  /\ filterCall.instruments[3].symbol = Absent
  /\ filterCall.result = <<2, 3>>

\* ------------------------------------------------------ adapter switch claim
\* The value a freshly built map holds for one schema field: the text of the
\* field's default, or the empty string when the default is absent or null.
C17_FreshValue(setting) ==
  IF setting.default.t \in {"undefined", "null"} THEN <<>>
  ELSE valueToString(setting.default)

\* The values map of an adapter nobody has edited yet.
C17_FreshValues(identifier) ==
  LET schema == AdapterMeta(identifier).settingsSchema
  IN [k \in FieldNames |->
        IF \E i \in 1..Len(schema) : schema[i].name = k
          THEN C17_FreshValue(schema[CHOOSE i \in 1..Len(schema) : schema[i].name = k])
          ELSE Missing]

\* C17: after the operator switches the adapter in the form, whatever values
\* were entered or loaded before, the values map has exactly the new adapter's
\* schema field names as keys, each holding that field's stringified default
\* or the empty string; no key or value of the previous adapter survives, and
\* the name and the enabled flag are unchanged.
C17_AdapterSwitchRebuilds ==
  [][\A i \in 1..Len(AdapterIds) :
       HandleAdapterChange(AdapterIds[i]) =>
         /\ formState'.adapter = AdapterIds[i]
         /\ { k \in FieldNames : formState'.configValues[k] # Missing }
              = SchemaNames(AdapterMeta(AdapterIds[i]).settingsSchema)
         /\ formState'.configValues = C17_FreshValues(AdapterIds[i])
         /\ formState'.name = formState.name
         /\ formState'.enabled = formState.enabled]_vars

\* C17 witness: provider p1 was loaded for editing with the binance values
\* depth "10" and apiKey "k", and the operator switched to the sim adapter:
\* depth is empty, live holds its default and apiKey is gone.
C17_Witness ==
  /\ formOpen /\ formMode = "edit"
  /\ formState.name = <<"p", "1">>
  /\ formState.adapter = "sim"
  /\ formState.configValues["depth"] = <<>>
  /\ formState.configValues["live"] = <<"f","a","l","s","e">>
  /\ formState.configValues["apiKey"] = Missing

\* ------------------------------------------------------- buildValues claim
\* The text the claim assigns to the field `setting` given the existing
\* settings: the existing value's text when the settings hold the name (a
\* null giving the empty string), else the text of a non-null default, else
\* the empty string.
C18_ValueOf(setting, existing) ==
  IF existing[setting.name].t # "undefined"
    THEN IF existing[setting.name].t = "null" THEN <<>>
         ELSE valueToString(existing[setting.name])
  ELSE IF setting.default.t \notin {"undefined", "null"}
    THEN valueToString(setting.default)
  ELSE <<>>

\* C18: buildValues returns a map whose keys are exactly the schema field
\* names, and each field's value is the stringified existing value when the
\* existing settings contain the field name (a present null becoming the
\* empty string, not the default), otherwise the stringified non-null
\* default, otherwise the empty string.
C18_BuildResult ==
  (buildCall.stage = "done" /\ buildCall.metadata.defined) =>
    LET schema == buildCall.metadata.settingsSchema
    IN /\ { k \in FieldNames : buildCall.result[k] # Missing }
            = { schema[i].name : i \in 1..Len(schema) }
       /\ \A i \in 1..Len(schema) :
            buildCall.result[schema[i].name]
              = C18_ValueOf(schema[i], buildCall.existing)

\* C18 witness: depth has the default 5 and a null in the existing settings,
\* apiKey has the default "k" and no existing value: depth comes out empty
\* and apiKey as its default.
C18_Witness ==
  /\ buildCall.stage = "done"
  /\ buildCall.metadata.defined
  /\ buildCall.metadata.settingsSchema
       = << Field("depth", <<"I","N","T">>, Num(5, 0), FALSE),
            Field("apiKey", <<"s","t","r","i","n","g">>, Str(<<"k">>), FALSE) >>
  /\ buildCall.existing["depth"] = Null
  /\ buildCall.existing["apiKey"] = Undefined
  /\ buildCall.result["depth"] = <<>>
  /\ buildCall.result["apiKey"] = <<"k">>
  /\ buildCall.result["live"] = Missing

\* ---------------------------------------------------- failed lifecycle call
\* The k-th handler presses its button in this step.
C19_Pressed ==
  /\ Len(actionReqs') = Len(actionReqs) + 1
  /\ actionReqs'[Len(actionReqs')].stage = "call"

\* The k-th handler finishes in this step straight from its startProvider /
\* stopProvider / deleteProvider call, which is what a failed call does.
C19_CallFailed(k) ==
  /\ k \in 1..Len(actionReqs)
  /\ actionReqs[k].stage = "call"
  /\ actionReqs' = RemoveAt(actionReqs, k)

\* C19: if a startProvider, stopProvider or deleteProvider call fails, the
\* handler leaves the providers list as it was when the action was pressed
\* (neither the press nor the failure changes the list, and no refresh is
\* started), and the failure is only recorded as the action error message.
C19_FailedActionKeepsProviders ==
  [][/\ C19_Pressed => providers' = providers
     /\ \A k \in 1..MaxActionReqs :
          C19_CallFailed(k) =>
            /\ providers' = providers
            /\ srv' = srv
            /\ actionError' = ErrMsg
            /\ actionNotice' = actionNotice
            /\ \A j \in 1..Len(actionReqs') : actionReqs'[j].stage = "refresh"
                 => \E i \in 1..Len(actionReqs) : actionReqs[i].stage = "refresh"
            /\ UNCHANGED <<loading, error, adapters, viewVars, formVars>>]_vars

\* C19 witness: an action failed while the list on screen was behind the
\* gateway (a second handler is still refreshing after its successful call):
\* the error is recorded, no notice is shown and the list was not reloaded.
C19_Witness ==
  /\ actionError = ErrMsg
  /\ actionNotice = NoNotice
  /\ pendingAction = NoName
  /\ Len(actionReqs) = 1
  /\ actionReqs[1].stage = "refresh"
  /\ providers # srv

\* ------------------------------------------------------------ failed save
\* The k-th submit finishes in this step straight from its createProvider /
\* updateProvider call, which is what a failed call does.
C20_SaveFailed(k) ==
  /\ k \in 1..Len(saveReqs)
  /\ saveReqs[k].stage = "save"
  /\ saveReqs' = RemoveAt(saveReqs, k)

\* C20: if the createProvider or updateProvider call fails, the form dialog
\* stays open and the form state (name, adapter, values map, enabled) is
\* exactly what the operator had entered, formError is set to the failure
\* message and no success notice is set; the submit button is released, so the
\* same values can be resubmitted.
C20_FailedSaveKeepsForm ==
  [][\A k \in 1..MaxSaveReqs :
       C20_SaveFailed(k) =>
         /\ formOpen' = formOpen
         /\ formMode' = formMode
         /\ formState' = formState
         /\ formLoading' = formLoading
         /\ formError' = <<"", ErrMsg>>
         /\ actionNotice' = actionNotice
         /\ submitting' = FALSE
         /\ providers' = providers /\ srv' = srv]_vars

\* C20 witness: a create form with the name " p4 " and the sim adapter whose
\* save failed: the dialog is open with the entered values, shows the failure
\* message and no notice, and can be submitted again.
C20_Witness ==
  /\ formOpen /\ formMode = "create"
  /\ formState.name = <<" ", "p", "4", " ">>
  /\ formState.adapter = "sim"
  /\ formState.configValues["depth"] = <<"7">>
  /\ formError = <<"", ErrMsg>>
  /\ actionNotice = NoNotice
  /\ ~submitting /\ ~formLoading
  /\ saveReqs = <<>> /\ editReqs = <<>>

\* ------------------------------------------------------------ notice timer
\* At most one auto-dismiss timer is pending.
C21_AtMostOneTimer == Cardinality(noticeTimers) <= 1

\* Whenever the notice changes, the timer of the previous notice is gone and
\* only a timer started for the new notice (if any) is pending.
C21_ChangeCancels ==
  [][actionNotice' # actionNotice =>
       noticeTimers' = IF actionNotice' = NoNotice THEN {}
                       ELSE {[notice |-> actionNotice', superseded |-> FALSE]}]_vars

\* A timer that fires was started for the notice it clears, and no notice
\* has been set since it was started.
C21_FiresForOwnNotice ==
  [][\A t \in noticeTimers :
       TimerFire(t) => (t.notice = actionNotice /\ ~t.superseded)]_vars

\* C21 (as claimed): at most one auto-dismiss timer is pending at any time;
\* whenever the notice changes the timer of the previous notice is cancelled;
\* so a timer started for an earlier notice never clears a later notice.
C21_TimerNeverClearsLaterNotice ==
  /\ []C21_AtMostOneTimer
  /\ C21_ChangeCancels
  /\ C21_FiresForOwnNotice

\* ------------------------------------------------------- coercion claims
\* The type tags of the three typed branches, in lower case.
C22_BoolTags == { <<"b","o","o","l">>, <<"b","o","o","l","e","a","n">> }

C22_IsWord(text, words) ==
  \E w \in words :
    /\ Len(text) = Len(w)
    /\ \A i \in 1..Len(w) : ToLowerCase(<<text[i]>>) = <<w[i]>>

\* C22: for a field whose type tag is bool or boolean, coerce compares the
\* trimmed value case-insensitively: true, 1, yes, on give true; false, 0, no,
\* off give false; every other non-blank value fails with "<name> must be a
\* boolean".
C22_BooleanCoercion ==
  (/\ coerceCall.done
   /\ ToLowerCase(coerceCall.setting.type) \in C22_BoolTags
   /\ Trim(coerceCall.raw) # <<>>)
    => LET text == Trim(coerceCall.raw)
       IN IF C22_IsWord(text, { <<"t","r","u","e">>, <<"1">>, <<"y","e","s">>, <<"o","n">> })
            THEN coerceCall.result = Value(Bool(TRUE))
          ELSE IF C22_IsWord(text, { <<"f","a","l","s","e">>, <<"0">>, <<"n","o">>,
                                     <<"o","f","f">> })
            THEN coerceCall.result = Value(Bool(FALSE))
          ELSE coerceCall.result =
                 FieldError(coerceCall.setting.name, " must be a boolean")

\* C22 witness: a BOOLEAN field with the text "Yes" gave true.
C22_Witness ==
  /\ coerceCall.done
  /\ coerceCall.setting.type = <<"B","O","O","L","E","A","N">>
  /\ coerceCall.raw = <<"Y","e","s">>
  /\ coerceCall.result = Value(Bool(TRUE))

\* Numeric text: an optional sign, digits with an optional fraction (at least
\* one digit in all) and an optional exponent, and nothing else.
C23_IsNumericText(text) ==
  LET body == IF HasSign(text) THEN Tail(text) ELSE text
      int == DigitsPrefix(body)
      afterInt == Drop(body, Len(int))
      hasDot == afterInt # <<>> /\ Head(afterInt) = "."
      frac == IF hasDot THEN DigitsPrefix(Tail(afterInt)) ELSE <<>>
      afterFrac == IF hasDot THEN Drop(afterInt, 1 + Len(frac)) ELSE afterInt
      hasE == afterFrac # <<>> /\ Head(afterFrac) \in {"e", "E"}
      exp == IF hasE THEN Tail(afterFrac) ELSE <<>>
      expBody == IF HasSign(exp) THEN Tail(exp) ELSE exp
  IN /\ (int # <<>> \/ frac # <<>>)
     /\ IF hasE THEN expBody # <<>> /\ DigitsPrefix(expBody) = expBody
        ELSE afterFrac = <<>>

\* C23 (as claimed): for a field whose type tag is float, double or number,
\* coerce returns the parsed number for numeric text and fails with "<name>
\* must be a number" on every input that is not numeric text, text that only
\* starts with a number included.
C23_NumberCoercion ==
  (/\ coerceCall.done
   /\ ToLowerCase(coerceCall.setting.type)
        \in { <<"f","l","o","a","t">>, <<"d","o","u","b","l","e">>,
              <<"n","u","m","b","e","r">> })
    => IF C23_IsNumericText(Trim(coerceCall.raw))
         THEN /\ ~IsError(coerceCall.result)
              /\ coerceCall.result.value.t = "number"
         ELSE coerceCall.result =
                FieldError(coerceCall.setting.name, " must be a number")

\* C24: for every type tag other than int, integer, float, double, number,
\* bool and boolean (compared case-insensitively), coerce never fails and
\* returns the raw string exactly as given, without trimming.
C24_DefaultPassesRaw ==
  (/\ coerceCall.done
   /\ ToLowerCase(coerceCall.setting.type)
        \notin { <<"i","n","t">>, <<"i","n","t","e","g","e","r">>,
                 <<"f","l","o","a","t">>, <<"d","o","u","b","l","e">>,
                 <<"n","u","m","b","e","r">>,
                 <<"b","o","o","l">>, <<"b","o","o","l","e","a","n">> })
    => /\ ~IsError(coerceCall.result)
       /\ coerceCall.result.value.t = "string"
       /\ coerceCall.result.value.s = coerceCall.raw

\* C24 witness: a field of the unknown type Ints with the text " on " gave
\* back " on ", blanks included.
C24_Witness ==
  /\ coerceCall.done
  /\ coerceCall.setting.type = <<"I","n","t","s">>
  /\ coerceCall.raw = <<" ","o","n"," ">>
  /\ coerceCall.result = Value(Str(<<" ","o","n"," ">>))

\* ------------------------------------------------------------- form close
\* C25: whenever the form dialog closes (cancel, dismissal, or a successful
\* save), the form state is reset to the empty state: name "", adapter "",
\* empty values map, enabled true, no form error, not loading, and the mode is
\* back to create.
C25_CloseResetsForm ==
  [][(formOpen /\ ~formOpen') =>
       /\ formState'.name = <<>>
       /\ formState'.adapter = ""
       /\ \A k \in FieldNames : formState'.configValues[k] = Missing
       /\ formState'.enabled = TRUE
       /\ formError' = NoFormError
       /\ formLoading' = FALSE
       /\ formMode' = "create"]_vars

\* C25 witness: the form was closed by a successful save of provider p4 after
\* fields had been filled in; it is empty and in create mode again.
C25_Witness ==
  /\ ~formOpen
  /\ actionNotice = <<"p4", "created">>
  /\ fieldInputs >= 2
  /\ formState = defaultFormState
  /\ formError = NoFormError /\ ~formLoading /\ formMode = "create"

\* ------------------------------------------------------------ save request
\* C26: when all submit checks pass, exactly one save request is issued; it
\* carries the trimmed name, the selected adapter's identifier, the payload
\* returned by collectPayload and the form's enabled flag, and it is
\* createProvider when the form was in create mode at the moment of the submit
\* and updateProvider keyed by the trimmed name when it was in edit mode.
C26_SubmitIssuesOneRequest ==
  [][(HandleFormSubmit /\ C4_FirstFailure = NoFormError) =>
       /\ Len(saveReqs') = Len(saveReqs) + 1
       /\ SubSeq(saveReqs', 1, Len(saveReqs)) = saveReqs
       /\ LET req == saveReqs'[Len(saveReqs')]
          IN /\ req.stage = "save"
             /\ req.mode = formMode
             /\ req.key = Trim(formState.name)
             /\ req.payload.name = Trim(formState.name)
             /\ req.payload.identifier = formState.adapter
             /\ req.payload.config =
                  collectConfigPayload(AdapterMeta(formState.adapter),
                                       formState.configValues).config
             /\ req.payload.enabled = formState.enabled]_vars

\* C26 witness: the create form with the name " p4 ", the sim adapter and
\* depth 7 was submitted: createProvider is outstanding with the name p4 and
\* the integer 7.
C26_Witness ==
  /\ Len(saveReqs) = 1
  /\ saveReqs[1].stage = "save"
  /\ saveReqs[1].mode = "create"
  /\ formState.name = <<" ", "p", "4", " ">>
  /\ saveReqs[1].payload.name = <<"p", "4">>
  /\ saveReqs[1].payload.identifier = "sim"
  /\ saveReqs[1].payload.config["depth"] = Num(7, 0)
  /\ submitting

\* ------------------------------------------------------ effects terminate
\* C27: after any single input event (query edit, page press, instrument
\* click, detail set or cleared, dialog close) the chain of reactive effects
\* (reset page, clamp page, resync selection) reaches a fixed point after
\* finitely many state updates (fewer than MaxRenders renders), also when the
\* page slice holds several instruments with the same symbol.
C27_EffectsSettle == Settled \/ renderCount < MaxRenders

\* C27 witness: the operator clicked the second of the two BTC1 instruments of
\* provider p2; the resync effect moved the selection to the first of them
\* and the following render changed nothing more.
C27_Witness ==
  /\ Settled
  /\ lastViewInput = "click"
  /\ renderCount = 2
  /\ detail.name = "p2"
  /\ selectedInstrument = InstrumentObj(detail, 2)

\* --------------------------------------------------------- one save at a time
\* C28: at most one createProvider / updateProvider request is in flight at
\* any time: submitting is true from the moment the request is issued until it
\* resolves, a request is only issued while the form is neither submitting nor
\* loading, and this holds when the dialog is dismissed and reopened while the
\* request is outstanding.
C28_OneSaveInFlight ==
  /\ [](Len(saveReqs) <= 1)
  /\ [](saveReqs # <<>> => submitting)
  /\ [][Len(saveReqs') > Len(saveReqs) =>
          (~submitting /\ ~formLoading /\ saveReqs = <<>> /\ submitting')]_vars

\* C28 witness: the dialog was dismissed and reopened with "Create provider"
\* while the save is outstanding: the form is empty again and still
\* submitting.
C28_Witness ==
  /\ formOpen /\ formMode = "create"
  /\ formState = defaultFormState
  /\ Len(saveReqs) = 1 /\ saveReqs[1].stage = "save"
  /\ submitting

\* ----------------------------------------------------- overlapping details
\* C29 (as claimed): when several handleDetail requests overlap, once all of
\* them have resolved (here: successfully) the detail shown is that of the
\* provider requested last; the response of an earlier, slower request never
\* replaces the result of a later request.
C29_LastRequestWins ==
  (/\ detailReqs = <<>>
   /\ detail # NoDetail
   /\ detailError = NoError)
    => detail.name = lastDetailName

\* ------------------------------------------------------------ pendingAction
\* C30: pendingAction is null whenever no start / stop / delete handler is in
\* flight: every handler clears it when it finishes, on success and on failure
\* alike, so no provider's controls stay disabled after all actions have
\* finished.
C30_IdleMeansNoPending ==
  /\ [](actionReqs = <<>> => pendingAction = NoName)
  /\ [][Len(actionReqs') < Len(actionReqs) => pendingAction' = NoName]_vars

\* C30 witness: a handler has failed and nothing is in flight any more: the
\* error is shown and no card is disabled.
C30_Witness ==
  /\ ~loading
  /\ actionReqs = <<>>
  /\ actionError = ErrMsg
  /\ actionNotice = NoNotice
  /\ pendingAction = NoName

\* ------------------------------------------------- outcome of one action
\* The k-th handler finishes in this step, and no other lifecycle handler
\* has run since it was started.
C31_SoloFinishes(k) ==
  /\ k \in 1..Len(actionReqs)
  /\ actionReqs[k].solo
  /\ actionReqs' = RemoveAt(actionReqs, k)

\* C31: when a single start, stop or delete action runs with no other action
\* interleaved, exactly one of the success notice and the action error is set
\* when its handler finishes: the notice (and no error) if the startProvider /
\* stopProvider / deleteProvider call succeeded, also when the refresh that
\* follows fails, and the error (and no notice) if the call failed.
C31_ExactlyOneOutcome ==
  [][\A k \in 1..MaxActionReqs :
       C31_SoloFinishes(k) =>
         IF actionReqs[k].stage = "refresh"
           THEN actionNotice' # NoNotice /\ actionError' = NoError
           ELSE actionError' # NoError /\ actionNotice' = NoNotice]_vars

\* ------------------------------------------------------- instrument click
\* An instrument button is clicked in this step.
C32_Clicked ==
  /\ Settled
  /\ lastViewInput' = "click"
  /\ renderCount' = 0

\* This step is a render of the chain of reactive updates a click started.
C32_SettlesClick ==
  /\ lastViewInput = "click"
  /\ ~Settled
  /\ rendered' # rendered

\* The query, the stored page, the instrument set and the filtered list are
\* the same after this step as before it.
C32_BrowserKept ==
  /\ instrumentQuery' = instrumentQuery
  /\ instrumentPage' = instrumentPage
  /\ detail' = detail
  /\ filteredInstruments(detail', instrumentQuery')
       = filteredInstruments(detail, instrumentQuery)

\* C32: clicking an instrument of the current page slice makes the selection
\* an instrument of that slice (the one clicked) and leaves the query, the
\* stored page, the instrument set and the filtered list unchanged; every
\* reactive update that follows the click keeps the selection on an
\* instrument of the slice with the same symbol and leaves those four
\* unchanged as well.
C32_ClickOnlySelects ==
  [][/\ C32_Clicked =>
          /\ selectedInstrument' \in SliceObjects
          /\ C32_BrowserKept
     /\ C32_SettlesClick =>
          /\ selectedInstrument \in SliceObjects
          /\ selectedInstrument' \in SliceObjects
          /\ SymbolOf(selectedInstrument') = SymbolOf(selectedInstrument)
          /\ C32_BrowserKept]_vars

\* C32 witness: on the second page of p1's unfiltered list the operator
\* clicked the second instrument; the render that followed left it selected.
C32_Witness ==
  /\ Settled
  /\ lastViewInput = "click"
  /\ renderCount = 1
  /\ detail.name = "p1"
  /\ instrumentQuery = <<>>
  /\ instrumentPage = 1
  /\ selectedInstrument = InstrumentObj(detail, INSTRUMENTS_PAGE_SIZE + 2)

====
